---- MODULE Spec2Model ----
(***************************************************************************)
(* State-machine model of the MIDI playback / timing engine:               *)
(*   src/midi-parser/midi_parser.c   event tokenizer (per-track cursor)    *)
(*   src/midi_video_output.cpp       tempo map, streaming scheduler,       *)
(*                                   playback clock, encoder pipe          *)
(*                                                                         *)
(* Representation choices                                                  *)
(*  - Times (C++ double, seconds) are exact rationals with the             *)
(*    denominator UnitsPerSecond(division); the model stores numerators.   *)
(*  - uint32_t arithmetic that can wrap (variable-length quantities, the   *)
(*    accumulated tick) is taken modulo U32Modulus = 2^U32Bits, a reduced  *)
(*    width that keeps wrap-around inside TLC's integer range.             *)
(*  - std::priority_queue is a bag; top() is any entry that no other entry *)
(*    precedes under PendingEventCompare (the order among equivalent       *)
(*    entries is not specified by the container).                          *)
(*  - steady_clock::now() is the variable now, advanced by AdvanceClock.   *)
(*  - int arithmetic on the frame dimensions has IntBits bits; a signed    *)
(*    overflow (undefined behaviour) may leave any value.                  *)
(***************************************************************************)
EXTENDS Integers, Naturals, Sequences, FiniteSets, Bags, TLC

(***************************************************************************)
(* Bounds of the model                                                     *)
(***************************************************************************)
U32Bits == 8
ClockStep == 60
MaxClockSteps == 2
MaxWriteFailures == 1
MaxCallFrame == 3
MaxCalls == 4
IntBits == 6
MaxProbeTick == 8

U32Modulus == 2 ^ U32Bits
MaxWall == ClockStep * MaxClockSteps
IntMax == (2 ^ (IntBits - 1)) - 1

(***************************************************************************)
(* Program constants                                                       *)
(***************************************************************************)
MIDI_EVENT_NOTE_OFF == 128
MIDI_EVENT_NOTE_ON == 144
MIDI_EVENT_META == 255
MIDI_EVENT_SYSEX == 240
MIDI_EVENT_SYSEX_END == 247
MIDI_META_END_OF_TRACK == 47
MIDI_META_SET_TEMPO == 81
DefaultTempo == 500000
NumKeys == 128
FramesPerSecond == 60
TailSeconds == 2
KeyPressDurationMs == 100
MicrosPerSecond == 1000000
SmpteTicksPerSecond == 1000
SmpteFlag == 32768

Notes == 0 .. (NumKeys - 1)
NULL == [null |-> TRUE]

Min(a, b) == IF a < b THEN a ELSE b
Max(a, b) == IF a > b THEN a ELSE b

(***************************************************************************)
(* midi_parser.c : event tokenizer                                         *)
(*                                                                         *)
(* A MidiTrack is [data, current, size, currentTick, runningStatus,        *)
(* ended]: data is the byte span of the chunk, current the number of       *)
(* bytes already consumed (track->current - track->data).                  *)
(***************************************************************************)

\* do { ... } while (byte & 0x80) of midi_read_variable_length, entered with
\* the value accumulated so far
RECURSIVE VarLenLoop(_, _, _, _)
VarLenLoop(data, pos, remaining, value) ==
    IF remaining = 0
    THEN [pos |-> pos, remaining |-> remaining, value |-> 0]
    ELSE LET byte == data[pos + 1]
             v2 == ((value * 128) + (byte % 128)) % U32Modulus
         IN IF byte >= 128
            THEN VarLenLoop(data, pos + 1, remaining - 1, v2)
            ELSE [pos |-> pos + 1, remaining |-> remaining - 1, value |-> v2]

midi_read_variable_length(data, pos, remaining) ==
    VarLenLoop(data, pos, remaining, 0)

EmptyEvent ==
    [deltaTime |-> 0, eventType |-> 0, channel |-> 0, data1 |-> 0, data2 |-> 0,
     metaType |-> 0, metaLength |-> 0, metaData |-> << >>,
     sysexLength |-> 0]

\* result of a failed read: the cursor as left behind, marked ended
ReadFail(track) == [track |-> [track EXCEPT !.ended = TRUE], ok |-> FALSE, event |-> EmptyEvent]

\* the part of midi_read_next_event after the status byte has been resolved
ReadEventBody(track, ev, eventByte, pos, remaining) ==
    IF eventByte = 255
    THEN \* meta event
         IF remaining = 0
         THEN ReadFail([track EXCEPT !.current = pos])
         ELSE LET metaType == track.data[pos + 1]
                  Meta(vl) ==
                      IF vl.remaining < vl.value
                      THEN ReadFail([track EXCEPT !.current = vl.pos])
                      ELSE [track |-> [track EXCEPT !.current = vl.pos + vl.value,
                                                    !.ended = (track.ended \/ metaType = MIDI_META_END_OF_TRACK)],
                            ok |-> TRUE,
                            event |-> [ev EXCEPT !.eventType = MIDI_EVENT_META,
                                                 !.metaType = metaType,
                                                 !.metaLength = vl.value,
                                                 !.metaData = SubSeq(track.data, vl.pos + 1, vl.pos + vl.value)]]
              IN Meta(midi_read_variable_length(track.data, pos + 1, remaining - 1))
    ELSE IF eventByte = 240 \/ eventByte = 247
    THEN \* SysEx
         LET SysEx(vl) ==
                 IF vl.remaining < vl.value
                 THEN ReadFail([track EXCEPT !.current = vl.pos])
                 ELSE [track |-> [track EXCEPT !.current = vl.pos + vl.value],
                       ok |-> TRUE,
                       event |-> [ev EXCEPT !.eventType = IF eventByte = 240 THEN MIDI_EVENT_SYSEX
                                                                             ELSE MIDI_EVENT_SYSEX_END,
                                            !.sysexLength = vl.value]]
         IN SysEx(midi_read_variable_length(track.data, pos, remaining))
    ELSE \* channel message
         LET msgType == (eventByte \div 16) * 16
         IN IF msgType = 192 \/ msgType = 208
            THEN IF remaining < 1
                 THEN ReadFail([track EXCEPT !.current = pos])
                 ELSE [track |-> [track EXCEPT !.current = pos + 1],
                       ok |-> TRUE,
                       event |-> [ev EXCEPT !.data1 = track.data[pos + 1]]]
            ELSE IF remaining < 2
                 THEN ReadFail([track EXCEPT !.current = pos])
                 ELSE [track |-> [track EXCEPT !.current = pos + 2],
                       ok |-> TRUE,
                       event |-> [ev EXCEPT !.data1 = track.data[pos + 1],
                                            !.data2 = track.data[pos + 2]]]

\* bool midi_read_next_event(MidiTrack* track, MidiEvent* event)
midi_read_next_event(track) ==
    IF track.ended
    THEN [track |-> track, ok |-> FALSE, event |-> EmptyEvent]
    ELSE LET remaining0 == track.size - track.current
         IN IF remaining0 = 0
            THEN ReadFail(track)
            ELSE LET AfterDelta(vl) ==
                         LET t1 == [track EXCEPT !.current = vl.pos,
                                                 !.currentTick = (track.currentTick + vl.value) % U32Modulus]
                             ev == [EmptyEvent EXCEPT !.deltaTime = vl.value]
                         IN IF vl.remaining = 0
                            THEN ReadFail(t1)
                            ELSE LET eventByte == track.data[vl.pos + 1]
                                     status == IF eventByte >= 128 THEN eventByte
                                                                   ELSE track.runningStatus
                                 IN IF eventByte < 128 /\ track.runningStatus = 0
                                    THEN ReadFail(t1)
                                    ELSE ReadEventBody(
                                             [t1 EXCEPT !.runningStatus = status],
                                             [ev EXCEPT !.eventType = (status \div 16) * 16,
                                                        !.channel = status % 16],
                                             status,
                                             IF eventByte >= 128 THEN vl.pos + 1 ELSE vl.pos,
                                             IF eventByte >= 128 THEN vl.remaining - 1
                                                                 ELSE vl.remaining)
                 IN AfterDelta(midi_read_variable_length(track.data, track.current, remaining0))

\* a faulty note test: every event but a meta event passes
IsNoteEvent_any(event) == event.eventType # MIDI_EVENT_META

IsNoteEvent(event) ==
    \/ (event.eventType = MIDI_EVENT_NOTE_ON /\ event.data2 > 0)
    \/ event.eventType = MIDI_EVENT_NOTE_OFF
    \/ (event.eventType = MIDI_EVENT_NOTE_ON /\ event.data2 = 0)

IsSetTempo(event) ==
    /\ event.eventType = MIDI_EVENT_META
    /\ event.metaType = MIDI_META_SET_TEMPO
    /\ event.metaLength = 3

TempoOf(event) ==
    (event.metaData[1] * 65536) + (event.metaData[2] * 256) + event.metaData[3]

(***************************************************************************)
(* Time representation and the tempo map                                   *)
(***************************************************************************)

\* the quantity the division scales times by: ticks per quarter note, or 1
\* for SMPTE divisions (bit 15 set) and for the degenerate division 0
DivUnit(division) == IF division >= SmpteFlag \/ division = 0 THEN 1 ELSE division

\* denominator of the time values of a document with this division
UnitsPerSecond(division) == FramesPerSecond * MicrosPerSecond * DivUnit(division)

\* frame_time_ = 1.0 / 60.0
frame_time_(division) == UnitsPerSecond(division) \div FramesPerSecond

\* kTimeEpsilon = 1e-6
kTimeEpsilon(division) == UnitsPerSecond(division) \div MicrosPerSecond

\* double TicksToSeconds(ticks, division, tempo):
\*   SMPTE: ticks / 1000.0;  otherwise (ticks / division) * (tempo / 1000000.0)
TicksToSeconds(ticks, division, tempo) ==
    IF division >= SmpteFlag
    THEN ticks * (UnitsPerSecond(division) \div SmpteTicksPerSecond)
    ELSE ticks * tempo * (UnitsPerSecond(division) \div (MicrosPerSecond * division))

\* a faulty loop: each segment's time replaces the total instead of adding to it
RECURSIVE ElapsedLoop_segment(_, _, _, _, _, _)
ElapsedLoop_segment(tc, division, targetTick, i, currentTick, totalSeconds) ==
    IF i > Len(tc)
    THEN totalSeconds
    ELSE LET nextTick == IF i < Len(tc) THEN tc[i + 1].tick ELSE targetTick
             segmentStart == Max(currentTick, tc[i].tick)
             segmentEnd == Min(targetTick, nextTick)
             add == segmentStart < segmentEnd
             total2 == IF add
                       THEN TicksToSeconds(segmentEnd - segmentStart, division, tc[i].tempo)
                       ELSE totalSeconds
             tick2 == IF add THEN segmentEnd ELSE currentTick
         IN IF targetTick <= nextTick
            THEN total2
            ELSE ElapsedLoop_segment(tc, division, targetTick, i + 1, tick2, total2)

\* the for loop of CalculateElapsedTimeFromTick, from index i on
RECURSIVE ElapsedLoop(_, _, _, _, _, _)
ElapsedLoop(tc, division, targetTick, i, currentTick, totalSeconds) ==
    IF i > Len(tc)
    THEN totalSeconds
    ELSE LET currentTempo == tc[i].tempo
             nextTick == IF i < Len(tc) THEN tc[i + 1].tick ELSE targetTick
             segmentStart == Max(currentTick, tc[i].tick)
             segmentEnd == Min(targetTick, nextTick)
             add == segmentStart < segmentEnd
             total2 == IF add
                       THEN totalSeconds + TicksToSeconds(segmentEnd - segmentStart, division, currentTempo)
                       ELSE totalSeconds
             tick2 == IF add THEN segmentEnd ELSE currentTick
         IN IF targetTick <= nextTick
            THEN total2
            ELSE ElapsedLoop(tc, division, targetTick, i + 1, tick2, total2)

\* double CalculateElapsedTimeFromTick(uint32_t targetTick) const
CalculateElapsedTimeFromTick(file, tc, tempo, targetTick) ==
    IF file = NULL \/ file.header.timeDivision <= 0
    THEN 0
    ELSE LET division == file.header.timeDivision
         IN IF Len(tc) = 0
            THEN TicksToSeconds(targetTick, division, tempo)
            ELSE IF tc[1].tick > 0
            THEN LET initialTicks == Min(targetTick, tc[1].tick)
                     initial == TicksToSeconds(initialTicks, division, tempo)
                 IN IF targetTick <= tc[1].tick
                    THEN initial
                    ELSE ElapsedLoop(tc, division, targetTick, 1, initialTicks, initial)
            ELSE ElapsedLoop(tc, division, targetTick, 1, 0, 0)

\* the while (midi_read_next_event(&track_copy, &event)) loop of
\* BuildTempoMapAndStats over one track copy
RECURSIVE ScanTrack(_, _)
ScanTrack(track_copy, acc) ==
    LET Body(r) ==
            IF ~r.ok
            THEN acc
            ELSE LET absolute_tick == r.track.currentTick
                     Stats(a1) ==
                         IF IsNoteEvent(r.event)
                         THEN [a1 EXCEPT !.total_event_count = @ + 1,
                                         !.total_note_count =
                                             IF r.event.eventType = MIDI_EVENT_NOTE_ON
                                                  /\ r.event.data2 > 0
                                             THEN @ + 1 ELSE @,
                                         !.last_event_tick =
                                             IF absolute_tick > @ THEN absolute_tick ELSE @]
                         ELSE a1
                 IN ScanTrack(r.track,
                        Stats(IF IsSetTempo(r.event)
                              THEN [acc EXCEPT !.tempo_changes =
                                        Append(@, [tempo |-> TempoOf(r.event),
                                                   tick |-> absolute_tick])]
                              ELSE acc))
    IN Body(midi_read_next_event(track_copy))

RECURSIVE ScanTracks(_, _, _)
ScanTracks(file, track_index, acc) ==
    IF track_index > file.header.numberOfTracks
    THEN acc
    ELSE ScanTracks(file, track_index + 1, ScanTrack(file.tracks[track_index], acc))

\* the pre-scan of BuildTempoMapAndStats, before std::sort
PreScan(file) ==
    ScanTracks(file, 1,
               [total_event_count |-> 0, total_note_count |-> 0, last_event_tick |-> 0,
                tempo_changes |-> << [tempo |-> DefaultTempo, tick |-> 0] >>])

IsSortedByTick(tc) == \A i \in 1 .. (Len(tc) - 1) : tc[i].tick <= tc[i + 1].tick

\* the results std::sort(..., a.tick < b.tick) may leave: every ordering of
\* the collected entries that is ascending by tick (std::sort is not stable)
SortOutcomes(tc) ==
    { [i \in 1 .. Len(tc) |-> tc[p[i]]] :
        p \in { q \in [1 .. Len(tc) -> 1 .. Len(tc)] :
                  /\ \A i, j \in 1 .. Len(tc) : i # j => q[i] # q[j]
                  /\ IsSortedByTick([i \in 1 .. Len(tc) |-> tc[q[i]]]) } }

\* a faulty duration: the tail margin is left out
CalculateTotalDuration_notail(file, tc, tempo, total_event_count, last_event_tick) ==
    IF file = NULL \/ total_event_count = 0
    THEN 0
    ELSE CalculateElapsedTimeFromTick(file, tc, tempo, last_event_tick)

\* double CalculateTotalDuration()
CalculateTotalDuration(file, tc, tempo, total_event_count, last_event_tick) ==
    IF file = NULL \/ total_event_count = 0
    THEN 0
    ELSE CalculateElapsedTimeFromTick(file, tc, tempo, last_event_tick)
           + TailSeconds * UnitsPerSecond(file.header.timeDivision)

(***************************************************************************)
(* The engine object                                                       *)
(*                                                                         *)
(* The methods of MidiVideoOutput are operators on a record M of its       *)
(* members (named as in midi_video_output.h).  keys_ is the set of keys    *)
(* the PianoKeyboard holds pressed, active_notes_ the set of notes whose   *)
(* entry is true, ffmpeg_process_ whether the pipe handle is non-null,     *)
(* applied_ the history of events handed to the note logic since the last  *)
(* ResetStreamingState, blips_ the blips handed to the PianoKeyboard since *)
(* then.  A method whose result depends on an unspecified order returns    *)
(* the set of objects it may leave.                                        *)
(***************************************************************************)

\* bool PendingEventCompare::operator()(lhs, rhs)
PendingEventCompare(lhs, rhs) ==
    IF lhs.time_seconds = rhs.time_seconds
    THEN lhs.tick > rhs.tick
    ELSE lhs.time_seconds > rhs.time_seconds

\* the entries pending_events_.top() may return
\* a faulty queue: top() may be any entry
QueueTops_any(queue) == BagToSet(queue)

QueueTops(queue) ==
    { e \in BagToSet(queue) : \A f \in BagToSet(queue) : ~PendingEventCompare(e, f) }

QueuePush(queue, e) == queue (+) SetToBag({e})
QueuePop(queue, e) == queue (-) SetToBag({e})
QueueSize(queue) == BagCardinality(queue)

\* std::fabs
Fabs(x) == IF x < 0 THEN 0 - x ELSE x

IsMidiLoaded(M) == M.midi_file_ # NULL

Division(M) == M.midi_file_.header.timeDivision

\* StreamingTrackState as set up by ResetStreamingState
FreshTrackState(track) ==
    [track_state |-> track, current_event |-> EmptyEvent, has_event |-> FALSE,
     event_tick |-> 0, event_time |-> 0]

\* the while (midi_read_next_event(&state.track_state, &event)) loop of
\* LoadNextTrackEvent
RECURSIVE LoadLoop(_, _)
LoadLoop(track_state, tempo) ==
    LET Body(r) ==
            IF ~r.ok
            THEN [event |-> EmptyEvent, tempo |-> tempo, track_state |-> r.track, found |-> FALSE]
            ELSE LET tempo2 == IF IsSetTempo(r.event) THEN TempoOf(r.event) ELSE tempo
                 IN IF IsNoteEvent(r.event)
                    THEN [event |-> r.event, tempo |-> tempo2, track_state |-> r.track,
                          found |-> TRUE]
                    ELSE LoadLoop(r.track, tempo2)
    IN Body(midi_read_next_event(track_state))

\* a faulty LoadNextTrackEvent(): the event is buffered but no entry is queued
LoadNextTrackEvent_nopush(M, track_index) ==
    IF M.midi_file_ = NULL \/ track_index > Len(M.streaming_tracks_)
    THEN M
    ELSE LET state == M.streaming_tracks_[track_index]
             Body(l) ==
                 IF l.found
                 THEN [M EXCEPT !.streaming_tracks_[track_index] =
                                    [track_state |-> l.track_state, current_event |-> l.event,
                                     has_event |-> TRUE,
                                     event_tick |-> l.track_state.currentTick,
                                     event_time |->
                                         CalculateElapsedTimeFromTick(
                                             M.midi_file_, M.tempo_changes_, l.tempo,
                                             l.track_state.currentTick)],
                                !.current_tempo_ = l.tempo]
                 ELSE [M EXCEPT !.streaming_tracks_[track_index] =
                                    [state EXCEPT !.track_state = l.track_state,
                                                  !.current_event = EmptyEvent,
                                                  !.has_event = FALSE],
                                !.current_tempo_ = l.tempo]
         IN Body(LoadLoop(state.track_state, M.current_tempo_))

\* a faulty LoadNextTrackEvent(): a track that yields no further event takes
\* the buffered events of all tracks with it
LoadNextTrackEvent_abort(M, track_index) ==
    IF M.midi_file_ = NULL \/ track_index > Len(M.streaming_tracks_)
    THEN M
    ELSE LET state == M.streaming_tracks_[track_index]
             Buffer(l, absolute_tick, event_time) ==
                 [M EXCEPT !.streaming_tracks_[track_index] =
                               [track_state |-> l.track_state, current_event |-> l.event,
                                has_event |-> TRUE, event_tick |-> absolute_tick,
                                event_time |-> event_time],
                           !.pending_events_ =
                               QueuePush(@, [tick |-> absolute_tick,
                                             track_index |-> track_index,
                                             time_seconds |-> event_time]),
                           !.current_tempo_ = l.tempo]
             Body(l) ==
                 IF l.found
                 THEN Buffer(l, l.track_state.currentTick,
                             CalculateElapsedTimeFromTick(M.midi_file_, M.tempo_changes_,
                                                          l.tempo, l.track_state.currentTick))
                 ELSE [M EXCEPT !.streaming_tracks_ =
                                    [i \in DOMAIN M.streaming_tracks_ |->
                                        [M.streaming_tracks_[i] EXCEPT
                                            !.track_state = IF i = track_index
                                                            THEN l.track_state ELSE @,
                                            !.current_event = EmptyEvent,
                                            !.has_event = FALSE]],
                                !.pending_events_ = EmptyBag,
                                !.current_tempo_ = l.tempo]
         IN Body(LoadLoop(state.track_state, M.current_tempo_))

\* bool LoadNextTrackEvent(size_t track_index)
LoadNextTrackEvent(M, track_index) ==
    IF M.midi_file_ = NULL \/ track_index > Len(M.streaming_tracks_)
    THEN M
    ELSE LET state == M.streaming_tracks_[track_index]
             Buffer(l, absolute_tick, event_time) ==
                 [M EXCEPT !.streaming_tracks_[track_index] =
                               [track_state |-> l.track_state, current_event |-> l.event,
                                has_event |-> TRUE, event_tick |-> absolute_tick,
                                event_time |-> event_time],
                           !.pending_events_ =
                               QueuePush(@, [tick |-> absolute_tick,
                                             track_index |-> track_index,
                                             time_seconds |-> event_time]),
                           !.current_tempo_ = l.tempo]
             Body(l) ==
                 IF l.found
                 THEN Buffer(l, l.track_state.currentTick,
                             CalculateElapsedTimeFromTick(M.midi_file_, M.tempo_changes_,
                                                          l.tempo, l.track_state.currentTick))
                 ELSE [M EXCEPT !.streaming_tracks_[track_index] =
                                    [state EXCEPT !.track_state = l.track_state,
                                                  !.current_event = EmptyEvent,
                                                  !.has_event = FALSE],
                                !.current_tempo_ = l.tempo]
         IN Body(LoadLoop(state.track_state, M.current_tempo_))

\* a faulty ResetStreamingState(): the streaming cursors are the tracks of the
\* document themselves, which are left where the first reads ended
RECURSIVE LoadAllTracks_inplace(_, _)
LoadAllTracks_inplace(M, i) ==
    IF i > Len(M.streaming_tracks_)
    THEN [M EXCEPT !.midi_file_.tracks =
                       [k \in DOMAIN M.midi_file_.tracks |->
                           M.streaming_tracks_[k].track_state]]
    ELSE LoadAllTracks_inplace(LoadNextTrackEvent(M, i), i + 1)

\* for (i = 0; i < streaming_tracks_.size(); ++i) LoadNextTrackEvent(i);
RECURSIVE LoadAllTracks(_, _)
LoadAllTracks(M, i) ==
    IF i > Len(M.streaming_tracks_)
    THEN M
    ELSE LoadAllTracks(LoadNextTrackEvent(M, i), i + 1)

\* void ClearStreamingResources()
ClearStreamingResources(M) ==
    [M EXCEPT !.streaming_tracks_ = << >>, !.pending_events_ = EmptyBag]

\* void ResetStreamingState()
ResetStreamingState(M) ==
    LET cleared == [ClearStreamingResources(M) EXCEPT !.applied_ = << >>, !.blips_ = << >>]
    IN IF M.midi_file_ = NULL
       THEN cleared
       ELSE LoadAllTracks(
                [cleared EXCEPT !.streaming_tracks_ =
                                    [i \in 1 .. M.midi_file_.header.numberOfTracks |->
                                        FreshTrackState(M.midi_file_.tracks[i])],
                                !.processed_event_count_ = 0],
                1)

\* MidiChannelColors::CHANNEL_COLORS, as 0xRRGGBB values
CHANNEL_COLORS ==
    << 3368703, 16743987, 3407718, 16724865,
       3407871, 14955519, 10092339, 4928511,
       16763955, 3388671, 16724787, 3407793,
       16724940, 5177139, 10040319, 15204147 >>

\* Color GetChannelColor(uint8_t channel)
GetChannelColor(channel) == CHANNEL_COLORS[(channel % 16) + 1]

\* void ProcessNoteEvent(const MidiEvent& event, double event_time)
ProcessNoteEvent(M, event, clock) ==
    IF ~M.piano_keyboard_
    THEN M
    ELSE IF event.eventType = MIDI_EVENT_NOTE_ON /\ event.data2 > 0
    THEN IF event.data1 >= 0 /\ event.data1 < NumKeys
         THEN [M EXCEPT !.keys_ = @ \cup {event.data1},
                        !.active_notes_ = @ \cup {event.data1},
                        !.note_press_times_[event.data1] = clock,
                        !.blips_ = Append(@, [note |-> event.data1,
                                              color |-> GetChannelColor(event.channel)])]
         ELSE M
    ELSE IF event.eventType = MIDI_EVENT_NOTE_OFF
              \/ (event.eventType = MIDI_EVENT_NOTE_ON /\ event.data2 = 0)
    THEN IF event.data1 >= 0 /\ event.data1 < NumKeys
         THEN [M EXCEPT !.keys_ = @ \ {event.data1},
                        !.active_notes_ = @ \ {event.data1}]
         ELSE M
    ELSE M

\* the entry appended to the history when a buffered event is applied
AppliedEntry(track_index, track_state) ==
    [event |-> track_state.current_event, tick |-> track_state.event_tick,
     track_index |-> track_index, time_seconds |-> track_state.event_time]

\* void ProcessMidiEvents(double current_time): the set of objects the loop
\* may leave (one per order in which equivalent queue entries are popped)
RECURSIVE ProcessMidiEvents(_, _, _)
ProcessMidiEvents(M, current_time, clock) ==
    IF M.midi_file_ = NULL \/ QueueSize(M.pending_events_) = 0
    THEN {M}
    ELSE UNION { IF next.time_seconds > current_time + kTimeEpsilon(Division(M))
                 THEN {M}
                 ELSE LET popped == [M EXCEPT !.pending_events_ = QueuePop(@, next)]
                      IN IF next.track_index > Len(M.streaming_tracks_)
                         THEN ProcessMidiEvents(popped, current_time, clock)
                         ELSE LET track_state == M.streaming_tracks_[next.track_index]
                              IN IF ~track_state.has_event
                                    \/ Fabs(track_state.event_time - next.time_seconds)
                                         > kTimeEpsilon(Division(M))
                                 THEN ProcessMidiEvents(popped, current_time, clock)
                                 ELSE LET noted == ProcessNoteEvent(popped,
                                                       track_state.current_event, clock)
                                          released ==
                                              [noted EXCEPT
                                                 !.streaming_tracks_[next.track_index].current_event
                                                     = EmptyEvent,
                                                 !.streaming_tracks_[next.track_index].has_event
                                                     = FALSE,
                                                 !.processed_event_count_ = @ + 1,
                                                 !.applied_ = Append(@,
                                                     AppliedEntry(next.track_index, track_state))]
                                      IN ProcessMidiEvents(
                                             LoadNextTrackEvent(released, next.track_index),
                                             current_time, clock)
               : next \in QueueTops(M.pending_events_) }

\* void UpdateActiveNotes(double current_time): auto-release of the keys held
\* longer than key_press_duration, measured on the wall clock
UpdateActiveNotes(M, clock) ==
    IF ~M.piano_keyboard_
    THEN M
    ELSE LET expired == { note \in M.active_notes_ :
                            clock - M.note_press_times_[note] > KeyPressDurationMs }
         IN [M EXCEPT !.keys_ = @ \ expired, !.active_notes_ = @ \ expired]

(***************************************************************************)
(* Playback control                                                        *)
(***************************************************************************)

\* a faulty Stop(): the note table and the keys are left as they are
Stop_keepnotes(M) ==
    ResetStreamingState(
        [M EXCEPT !.playback_state_ = "Stopped",
                  !.current_time_ = 0,
                  !.processed_event_count_ = 0])

\* void Stop()
Stop(M) ==
    ResetStreamingState(
        [M EXCEPT !.playback_state_ = "Stopped",
                  !.current_time_ = 0,
                  !.processed_event_count_ = 0,
                  !.keys_ = IF M.piano_keyboard_ THEN {} ELSE @,
                  !.active_notes_ = {}])

\* a faulty Play(): a start from Stopped keeps the old frame counter
Play_keepframe(M) ==
    IF ~IsMidiLoaded(M)
    THEN M
    ELSE IF M.playback_state_ = "Playing"
    THEN M
    ELSE IF M.playback_state_ = "Paused"
    THEN [M EXCEPT !.playback_state_ = "Playing"]
    ELSE [ResetStreamingState([M EXCEPT !.current_time_ = 0])
            EXCEPT !.playback_state_ = "Playing"]

\* void Play()
Play(M) ==
    IF ~IsMidiLoaded(M)
    THEN M
    ELSE IF M.playback_state_ = "Playing"
    THEN M
    ELSE IF M.playback_state_ = "Paused"
    THEN [M EXCEPT !.playback_state_ = "Playing"]
    ELSE [ResetStreamingState([M EXCEPT !.current_frame_ = 0, !.current_time_ = 0])
            EXCEPT !.playback_state_ = "Playing"]

\* a faulty Pause(): the state is not looked at
Pause_any(M) == [M EXCEPT !.playback_state_ = "Paused"]

\* void Pause()
Pause(M) ==
    IF M.playback_state_ = "Playing"
    THEN [M EXCEPT !.playback_state_ = "Paused"]
    ELSE M

\* a faulty clamp: the upper end is not enforced
ClampSeekTime_unclamped(time_seconds, total_duration) == Max(0, time_seconds)

\* time_seconds = std::max(0.0, std::min(time_seconds, total_duration_))
ClampSeekTime(time_seconds, total_duration) == Max(0, Min(time_seconds, total_duration))

\* the while (!pending_events_.empty()) loop of Seek, accumulating the local
\* note_state table; yields the set of pairs (object, note_state) it may leave
RECURSIVE SeekLoop(_, _, _)
SeekLoop(M, note_state, time_seconds) ==
    IF QueueSize(M.pending_events_) = 0
    THEN {[note_state |-> note_state, obj |-> M]}
    ELSE UNION { IF next.time_seconds > time_seconds + kTimeEpsilon(Division(M))
                 THEN {[note_state |-> note_state, obj |-> M]}
                 ELSE LET popped == [M EXCEPT !.pending_events_ = QueuePop(@, next)]
                      IN IF next.track_index > Len(M.streaming_tracks_)
                         THEN SeekLoop(popped, note_state, time_seconds)
                         ELSE LET track_state == M.streaming_tracks_[next.track_index]
                                  event == track_state.current_event
                              IN IF ~track_state.has_event
                                    \/ Fabs(track_state.event_time - next.time_seconds)
                                         > kTimeEpsilon(Division(M))
                                 THEN SeekLoop(popped, note_state, time_seconds)
                                 ELSE LET ns2 ==
                                            IF event.eventType = MIDI_EVENT_NOTE_ON /\ event.data2 > 0
                                            THEN IF event.data1 >= 0 /\ event.data1 < NumKeys
                                                 THEN note_state \cup {event.data1}
                                                 ELSE note_state
                                            ELSE IF event.eventType = MIDI_EVENT_NOTE_OFF
                                                    \/ (event.eventType = MIDI_EVENT_NOTE_ON
                                                          /\ event.data2 = 0)
                                            THEN IF event.data1 >= 0 /\ event.data1 < NumKeys
                                                 THEN note_state \ {event.data1}
                                                 ELSE note_state
                                            ELSE note_state
                                          released ==
                                            [popped EXCEPT
                                               !.streaming_tracks_[next.track_index].current_event
                                                   = EmptyEvent,
                                               !.streaming_tracks_[next.track_index].has_event
                                                   = FALSE,
                                               !.processed_event_count_ = @ + 1,
                                               !.applied_ = Append(@,
                                                   AppliedEntry(next.track_index, track_state))]
                                      IN SeekLoop(LoadNextTrackEvent(released, next.track_index),
                                                  ns2, time_seconds)
               : next \in QueueTops(M.pending_events_) }

\* void Seek(double time_seconds)
Seek(M, time_seconds, clock) ==
    IF ~IsMidiLoaded(M)
    THEN {M}
    ELSE LET t == ClampSeekTime(time_seconds, M.total_duration_)
             reset == [ResetStreamingState(M) EXCEPT
                          !.keys_ = IF M.piano_keyboard_ THEN {} ELSE @,
                          !.active_notes_ = {},
                          !.processed_event_count_ = 0]
         IN { [r.obj EXCEPT
                 !.keys_ = IF M.piano_keyboard_ THEN r.note_state ELSE @,
                 !.active_notes_ = r.note_state,
                 !.note_press_times_ =
                     [note \in Notes |-> IF note \in r.note_state THEN clock ELSE @[note]],
                 !.current_time_ = t,
                 !.current_frame_ = t \div frame_time_(Division(M))]
              : r \in SeekLoop(reset, {}, t) }

(***************************************************************************)
(* Encoder pipe and recording                                              *)
(***************************************************************************)

\* void FinalizeFFmpeg(): pclose ends the child process; encoders_ counts the
\* encoder processes spawned and not yet closed, pipe_writes_ the fwrite
\* calls made on the open pipe, written_bytes_ the length of the last buffer
\* written to it (0 before the first), encoder_settings_ the settings the
\* command line of the open encoder was built from (NULL without one)
FinalizeFFmpeg(M) ==
    IF M.ffmpeg_process_
    THEN [M EXCEPT !.ffmpeg_process_ = FALSE, !.encoders_ = @ - 1, !.pipe_writes_ = 0,
                   !.written_bytes_ = 0, !.encoder_settings_ = NULL]
    ELSE M

\* a faulty InitializeFFmpeg(): a handle is kept although popen failed
InitializeFFmpeg_keephandle(M, spawn_ok) ==
    [M EXCEPT !.ffmpeg_process_ = TRUE,
              !.encoders_ = IF spawn_ok THEN @ + 1 ELSE @,
              !.pipe_writes_ = 0,
              !.written_bytes_ = 0,
              !.encoder_settings_ = M.video_settings_]

\* bool InitializeFFmpeg(); spawn_ok is whether popen returns a handle
InitializeFFmpeg(M, spawn_ok) ==
    LET closed == IF M.ffmpeg_process_ THEN FinalizeFFmpeg(M) ELSE M
    IN [closed EXCEPT !.ffmpeg_process_ = spawn_ok,
                      !.encoders_ = IF spawn_ok THEN @ + 1 ELSE @,
                      !.pipe_writes_ = 0,
                      !.written_bytes_ = 0,
                      !.encoder_settings_ = IF spawn_ok THEN M.video_settings_ ELSE NULL]

\* the audio files present on disk
ExistingAudioFiles == {"audio.wav"}

\* a faulty existence test: every path is taken to exist
AudioFileExists_any(path) == TRUE

\* std::filesystem::exists(audio_path)
AudioFileExists(path) == path \in ExistingAudioFiles

\* a faulty StartVideoOutput(): a running recording is not looked at
StartVideoOutput_again(M, settings, spawn_ok) ==
    IF ~IsMidiLoaded(M)
    THEN M
    ELSE LET configured == [M EXCEPT !.video_settings_ = settings]
         IN IF settings.include_audio /\ settings.audio_file_path = ""
            THEN configured
            ELSE IF settings.include_audio /\ ~AudioFileExists(settings.audio_file_path)
            THEN configured
            ELSE LET Start(spawned) ==
                         IF ~spawned.ffmpeg_process_
                         THEN spawned
                         ELSE Play([Stop([spawned EXCEPT !.is_recording_ = TRUE,
                                                         !.frame_count_ = 0,
                                                         !.playback_state_ = "Recording"])
                                      EXCEPT !.current_time_ = 0])
                 IN Start(InitializeFFmpeg(configured, spawn_ok))

\* bool StartVideoOutput(const VideoOutputSettings& settings)
StartVideoOutput(M, settings, spawn_ok) ==
    IF ~IsMidiLoaded(M)
    THEN M
    ELSE IF M.is_recording_
    THEN M
    ELSE LET configured == [M EXCEPT !.video_settings_ = settings]
         IN IF settings.include_audio /\ settings.audio_file_path = ""
            THEN configured
            ELSE IF settings.include_audio /\ ~AudioFileExists(settings.audio_file_path)
            THEN configured
            ELSE LET Start(spawned) ==
                         IF ~spawned.ffmpeg_process_
                         THEN spawned
                         ELSE Play([Stop([spawned EXCEPT !.is_recording_ = TRUE,
                                                         !.frame_count_ = 0,
                                                         !.playback_state_ = "Recording"])
                                      EXCEPT !.current_time_ = 0])
                 IN Start(InitializeFFmpeg(configured, spawn_ok))

\* a faulty StopVideoOutput(): the encoder pipe is left open
StopVideoOutput_keeppipe(M) ==
    IF M.is_recording_
    THEN [M EXCEPT !.is_recording_ = FALSE, !.playback_state_ = "Stopped"]
    ELSE M

\* void StopVideoOutput()
StopVideoOutput(M) ==
    IF M.is_recording_
    THEN FinalizeFFmpeg([M EXCEPT !.is_recording_ = FALSE, !.playback_state_ = "Stopped"])
    ELSE M

\* void SetVideoSettings(const VideoOutputSettings& settings), and an
\* assignment through the reference GetVideoSettings() returns
SetVideoSettings(M, settings) == [M EXCEPT !.video_settings_ = settings]

\* the values the int expression width * height * 4 may leave in a size_t:
\* the product when int holds it, anything after a signed overflow
FrameBytes(settings) ==
    IF settings.width * settings.height * 4 <= IntMax
    THEN {settings.width * settings.height * 4}
    ELSE 0 .. (4 * IntMax)

\* std::vector<uint8_t> CaptureFramebuffer(): the lengths of the buffer
\* ReadFramebuffer(width, height) may return (empty without a renderer)
CaptureFramebuffer(M) ==
    IF ~M.renderer_
    THEN {0}
    ELSE FrameBytes(M.video_settings_)

\* bool WriteFrameToFFmpeg(frame_data) for a buffer of frame_size bytes;
\* write_ok is whether fwrite transfers the whole buffer and fflush succeeds
WriteFrameToFFmpeg(M, frame_size, write_ok) ==
    IF ~M.ffmpeg_process_ \/ frame_size = 0
    THEN {[ok |-> FALSE, obj |-> M]}
    ELSE { IF frame_size # expected_size
           THEN [ok |-> FALSE, obj |-> M]
           ELSE [ok |-> write_ok, obj |-> [M EXCEPT !.pipe_writes_ = @ + 1,
                                                    !.written_bytes_ = frame_size]]
           : expected_size \in FrameBytes(M.video_settings_) }

\* a faulty CaptureFrame(): a written frame is not counted
CaptureFrame_nocount(M, write_ok) ==
    IF ~M.is_recording_ \/ ~M.renderer_ \/ ~M.ffmpeg_process_
    THEN {M}
    ELSE UNION { IF frame_size = 0
                 THEN {M}
                 ELSE { w.obj : w \in WriteFrameToFFmpeg(M, frame_size, write_ok) }
                 : frame_size \in CaptureFramebuffer(M) }

\* bool CaptureFrame()
CaptureFrame(M, write_ok) ==
    IF ~M.is_recording_ \/ ~M.renderer_ \/ ~M.ffmpeg_process_
    THEN {M}
    ELSE UNION { IF frame_size = 0
                 THEN {M}
                 ELSE { IF w.ok THEN [w.obj EXCEPT !.frame_count_ = @ + 1] ELSE w.obj
                        : w \in WriteFrameToFFmpeg(M, frame_size, write_ok) }
                 : frame_size \in CaptureFramebuffer(M) }

(***************************************************************************)
(* Frame clock                                                             *)
(***************************************************************************)

\* a faulty end test: the frame that lands exactly on the end plays on
ReachedEnd_strict(current_time, total_duration) == current_time > total_duration

\* a faulty end test: every frame is taken to be the last
ReachedEnd_first(current_time, total_duration) == TRUE

\* if (current_time_ >= total_duration_)
ReachedEnd(current_time, total_duration) == current_time >= total_duration

\* a faulty clock: the time advances by the measured delta (in seconds)
AdvanceFrame_delta(M, delta_time) ==
    [M EXCEPT !.current_frame_ = @ + 1,
              !.current_time_ = @ + delta_time * UnitsPerSecond(Division(M))]

\* current_frame_++; current_time_ = current_frame_ * frame_time_;
AdvanceFrame(M, delta_time) ==
    [M EXCEPT !.current_frame_ = @ + 1,
              !.current_time_ = (M.current_frame_ + 1) * frame_time_(Division(M))]

\* a faulty Update(): the frame advances whatever the playback state
Update_anystate(M, delta_time, write_ok, clock) ==
    IF ~IsMidiLoaded(M)
    THEN {M}
    ELSE LET Capture(released) ==
                 IF released.is_recording_
                 THEN CaptureFrame(released, write_ok)
                 ELSE {released}
             Frame(stepped) ==
                 IF ReachedEnd(stepped.current_time_, stepped.total_duration_)
                 THEN IF stepped.is_recording_
                      THEN {StopVideoOutput(stepped)}
                      ELSE {Stop(stepped)}
                 ELSE UNION { Capture(UpdateActiveNotes(p, clock))
                              : p \in ProcessMidiEvents(stepped, stepped.current_time_, clock) }
         IN Frame(AdvanceFrame(M, delta_time))

\* void Update(double delta_time)
Update(M, delta_time, write_ok, clock) ==
    IF M.playback_state_ # "Playing" /\ M.playback_state_ # "Recording"
    THEN {M}
    ELSE IF ~IsMidiLoaded(M)
    THEN {M}
    ELSE LET Capture(released) ==
                 IF released.is_recording_
                 THEN CaptureFrame(released, write_ok)
                 ELSE {released}
             Frame(stepped) ==
                 IF ReachedEnd(stepped.current_time_, stepped.total_duration_)
                 THEN IF stepped.is_recording_
                      THEN {StopVideoOutput(stepped)}
                      ELSE {Stop(stepped)}
                 ELSE UNION { Capture(UpdateActiveNotes(p, clock))
                              : p \in ProcessMidiEvents(stepped, stepped.current_time_, clock) }
         IN Frame(AdvanceFrame(M, delta_time))

(***************************************************************************)
(* Loading                                                                 *)
(***************************************************************************)

\* void UnloadMidiFile()
UnloadMidiFile(M) ==
    LET Release(stopped) ==
            IF stopped.midi_file_ # NULL
            THEN [ClearStreamingResources(stopped) EXCEPT
                     !.midi_file_ = NULL,
                     !.tempo_changes_ = << >>,
                     !.current_time_ = 0,
                     !.total_duration_ = 0,
                     !.total_note_count_ = 0,
                     !.processed_event_count_ = 0,
                     !.total_event_count_ = 0,
                     !.last_event_tick_ = 0,
                     !.active_notes_ = {}]
            ELSE stopped
    IN Release(Stop(M))

\* void Cleanup()
Cleanup(M) ==
    LET Release(closed) ==
            [UnloadMidiFile(closed) EXCEPT !.piano_keyboard_ = FALSE, !.renderer_ = FALSE]
    IN Release(FinalizeFFmpeg(IF M.is_recording_ THEN StopVideoOutput(M) ELSE M))

\* void BuildTempoMapAndStats(): one object per order std::sort may leave
BuildTempoMapAndStats(M) ==
    IF M.midi_file_ = NULL
    THEN {M}
    ELSE LET Sorted(scan) ==
                 { [M EXCEPT !.tempo_changes_ = tc,
                             !.total_note_count_ = scan.total_note_count,
                             !.total_event_count_ = scan.total_event_count,
                             !.processed_event_count_ = 0,
                             !.last_event_tick_ = scan.last_event_tick,
                             !.current_tempo_ = tc[1].tempo]
                   : tc \in SortOutcomes(scan.tempo_changes) }
         IN Sorted(PreScan(M.midi_file_))

\* bool LoadMidiFile(const std::string& filepath); parsed is the MidiFile that
\* midi_load_file produced, or NULL when it failed
LoadMidiFile(M, parsed) ==
    LET Load(unloaded) ==
            IF parsed = NULL
            THEN {unloaded}
            ELSE { ResetStreamingState(
                       [b EXCEPT !.total_duration_ =
                           CalculateTotalDuration(b.midi_file_, b.tempo_changes_,
                                                  b.current_tempo_, b.total_event_count_,
                                                  b.last_event_tick_)])
                   : b \in BuildTempoMapAndStats([unloaded EXCEPT !.midi_file_ = parsed]) }
    IN Load(UnloadMidiFile(M))

(***************************************************************************)
(* The materialized event list                                             *)
(***************************************************************************)

\* the while (midi_read_next_event(&track_copy, &event)) loop of
\* GetEventsInRange over one track copy: the TimedMidiEvents it pushes
RECURSIVE CollectTrack(_, _, _, _, _)
CollectTrack(M, track_copy, start_time, end_time, events) ==
    LET Push(r, absolute_tick, time) ==
            IF IsNoteEvent(r.event) /\ time >= start_time /\ time <= end_time
            THEN Append(events, [event |-> r.event, tick |-> absolute_tick,
                                 time_seconds |-> time])
            ELSE events
        Body(r) ==
            IF ~r.ok
            THEN events
            ELSE CollectTrack(M, r.track, start_time, end_time,
                     Push(r, r.track.currentTick,
                          CalculateElapsedTimeFromTick(M.midi_file_, M.tempo_changes_,
                                                       M.current_tempo_, r.track.currentTick)))
    IN Body(midi_read_next_event(track_copy))

\* the for loop over the tracks
RECURSIVE CollectTracks(_, _, _, _, _)
CollectTracks(M, track_index, start_time, end_time, events) ==
    IF track_index > M.midi_file_.header.numberOfTracks
    THEN events
    ELSE CollectTracks(M, track_index + 1, start_time, end_time,
                       CollectTrack(M, M.midi_file_.tracks[track_index],
                                    start_time, end_time, events))

\* the comparator handed to std::sort: time ascending, then tick
TimedEventLess(a, b) ==
    IF a.time_seconds = b.time_seconds
    THEN a.tick < b.tick
    ELSE a.time_seconds < b.time_seconds

\* std::vector<TimedMidiEvent> GetEventsInRange(start_time, end_time): every
\* ordering std::sort may leave (entries it holds equivalent in any order)
GetEventsInRange(M, start_time, end_time) ==
    IF M.midi_file_ = NULL \/ end_time < start_time
    THEN {<< >>}
    ELSE LET Sorted(events, n) ==
                 { [i \in 1 .. n |-> events[p[i]]] :
                     p \in { q \in [1 .. n -> 1 .. n] :
                               /\ \A i, j \in 1 .. n : i # j => q[i] # q[j]
                               /\ \A i \in 1 .. (n - 1) :
                                     ~TimedEventLess(events[q[i + 1]], events[q[i]]) } }
             Collected(events) == Sorted(events, Len(events))
         IN Collected(CollectTracks(M, 1, start_time, end_time, << >>))

(***************************************************************************)
(* Documents                                                               *)
(***************************************************************************)

\* the MidiTrack midi_load_from_memory sets up for a chunk with these bytes
LoadedTrack(bytes) ==
    [data |-> bytes, ended |-> FALSE, current |-> 0, size |-> Len(bytes),
     currentTick |-> 0, runningStatus |-> 0]

\* the MidiFile midi_load_from_memory builds from a well-formed buffer
LoadedFile(formatType, timeDivision, chunks) ==
    [header |-> [timeDivision |-> timeDivision, numberOfTracks |-> Len(chunks),
                 formatType |-> formatType],
     tracks |-> [i \in 1 .. Len(chunks) |-> LoadedTrack(chunks[i])]]

(***************************************************************************)
(* midi_parser.c : loader                                                  *)
(*                                                                         *)
(* midi_load_from_memory over a buffer given as a sequence of bytes.  Of   *)
(* the MidiFile it builds, the header fields and the tracks are kept (the  *)
(* engine reads nothing else).  current is the number of bytes consumed,   *)
(* remaining the size_t counter of the code.  A read outside the buffer    *)
(* yields unspecified bytes, so the loader has a set of outcomes.          *)
(***************************************************************************)

\* the chunk signatures "MThd" and "MTrk"
MThd == << 77, 84, 104, 100 >>
MTrk == << 77, 84, 114, 107 >>

\* size_t arithmetic wraps; the modulus is beyond every length that occurs
SizeModulus == 2 ^ 30

\* the values a byte read outside the buffer is given
OutOfBufferBytes == {0, 1}

\* a faulty signature test: every chunk id passes
IsSignature_any(bytes, signature) == TRUE

\* strncmp(chunkID, signature, 4) == 0
IsSignature(bytes, signature) == \A k \in 1 .. 4 : bytes[k] = signature[k]

\* midi_swap_uint16(*(uint16_t*)current) at offset at
ReadU16(data, at) == (data[at + 1] * 256) + data[at + 2]

\* midi_swap_uint32(*(uint32_t*)current) of these four bytes
SwapU32(bytes) ==
    (((((bytes[1] * 256) + bytes[2]) * 256) + bytes[3]) * 256) + bytes[4]

\* the n bytes a read at offset at may see
BytesAt(data, at, n) ==
    IF at + n <= Len(data)
    THEN {SubSeq(data, at + 1, at + n)}
    ELSE { [k \in 1 .. n |-> IF at + k <= Len(data) THEN data[at + k] ELSE o[k]]
           : o \in [1 .. n -> OutOfBufferBytes] }

\* the MidiTrack set up for a chunk of chunkSize bytes at offset current
\* (data holds the bytes of the span that lie inside the buffer)
TrackAt(data, current, chunkSize) ==
    [data |-> SubSeq(data, current + 1, Min(current + chunkSize, Len(data))),
     ended |-> FALSE, current |-> 0, size |-> chunkSize,
     currentTick |-> 0, runningStatus |-> 0]

\* a failed load: midi_free_file(midi) and the error code
ParseFail(result, warnings) == [file |-> NULL, result |-> result, warnings |-> warnings]

\* while (remaining >= 4) { if (strncmp(current, "MTrk", 4) == 0) ... }: the
\* offset of the signature found, or -1; bytes outside the buffer hold none
RECURSIVE ScanForMTrk(_, _, _)
ScanForMTrk(data, current, remaining) ==
    IF remaining < 4 \/ current + 4 > Len(data)
    THEN -1
    ELSE IF IsSignature(SubSeq(data, current + 1, current + 4), MTrk)
    THEN current
    ELSE ScanForMTrk(data, current + 1, remaining - 1)

\* the for loop over the tracks, entered with the tracks set up so far
RECURSIVE ParseTracks(_, _, _, _, _, _)
ParseTracks(data, header, current, remaining, tracks, warnings) ==
    IF Len(tracks) >= header.numberOfTracks
    THEN {[file |-> [header |-> header, tracks |-> tracks],
           result |-> "MIDI_PARSE_SUCCESS",
           warnings |-> warnings]}
    ELSE IF remaining < 8
    THEN {ParseFail("MIDI_PARSE_ERROR_CORRUPTED_DATA", warnings)}
    ELSE LET Content(chunkSize, cur, rem, w) ==
                 IF rem < chunkSize
                 THEN {ParseFail("MIDI_PARSE_ERROR_CORRUPTED_DATA", w)}
                 ELSE ParseTracks(data, header, cur + chunkSize, rem - chunkSize,
                                  Append(tracks, TrackAt(data, cur, chunkSize)), w)
             Resync(found, w) ==
                 IF found < 0
                 THEN {ParseFail("MIDI_PARSE_ERROR_CORRUPTED_DATA", w)}
                 ELSE UNION { Content(SwapU32(b), found + 8,
                                      ((remaining - 8) - (found - (current + 8)) - 8)
                                          % SizeModulus,
                                      w)
                              : b \in BytesAt(data, found + 4, 4) }
             Header(b) ==
                 IF IsSignature(b, MTrk)
                 THEN Content(SwapU32(SubSeq(b, 5, 8)), current + 8, remaining - 8, warnings)
                 ELSE Resync(ScanForMTrk(data, current + 8, remaining - 8),
                             warnings \cup {"Invalid track header signature"})
         IN UNION { Header(b) : b \in BytesAt(data, current, 8) }

\* MidiParseResult midi_load_from_memory(data, size, &midiFile)
midi_load_from_memory(data) ==
    IF Len(data) < 14
    THEN {ParseFail("MIDI_PARSE_ERROR_CORRUPTED_DATA", {})}
    ELSE LET header == [timeDivision |-> ReadU16(data, 12),
                        numberOfTracks |-> ReadU16(data, 10),
                        formatType |-> ReadU16(data, 8)]
             warnings ==
                 (IF SwapU32(SubSeq(data, 5, 8)) # 6
                  THEN {"Non-standard header size"} ELSE {})
                 \cup (IF ReadU16(data, 8) > 2
                       THEN {"Unsupported format type"} ELSE {})
         IN IF ~IsSignature(SubSeq(data, 1, 4), MThd)
            THEN {ParseFail("MIDI_PARSE_ERROR_INVALID_HEADER", {})}
            ELSE IF header.numberOfTracks = 0
            THEN {ParseFail("MIDI_PARSE_ERROR_CORRUPTED_DATA", warnings)}
            ELSE ParseTracks(data, header, 14, Len(data) - 14, << >>, warnings)

\* the bytes of a 16-bit and of a 32-bit big-endian field
U16Bytes(v) == << v \div 256, v % 256 >>
U32Bytes(v) == << 0, 0, v \div 256, v % 256 >>

\* a header chunk and a track chunk as they stand in a file
HeaderChunk(chunkSize, formatType, numberOfTracks, timeDivision) ==
    MThd \o U32Bytes(chunkSize) \o U16Bytes(formatType)
         \o U16Bytes(numberOfTracks) \o U16Bytes(timeDivision)
TrackChunk(bytes) == MTrk \o U32Bytes(Len(bytes)) \o bytes

\* the track chunks of a MidiFile, from track i on
RECURSIVE TrackChunks(_, _)
TrackChunks(tracks, i) ==
    IF i > Len(tracks) THEN << >> ELSE TrackChunk(tracks[i].data) \o TrackChunks(tracks, i + 1)

\* the buffer a well-framed file of these tracks consists of
FileBytes(file) ==
    HeaderChunk(6, file.header.formatType, file.header.numberOfTracks,
                file.header.timeDivision)
    \o TrackChunks(file.tracks, 1)

\* division 12, no SetTempo: one tick is 2.5 frames.
\*   track 1: NoteOn ch0 60 @0, NoteOff 60 @1, EndOfTrack
\*   track 2: NoteOn ch1 62 @1, (running status) NoteOn 62 vel 0 @2, EndOfTrack
FileA ==
    LoadedFile(1, 12,
        << << 0, 144, 60, 100,   1, 128, 60, 0,   0, 255, 47, 0 >>,
           << 1, 145, 62, 90,    1, 62, 0,        0, 255, 47, 0 >> >>)

\* division 3, SetTempo 25000 at tick 0: one tick is half a frame.
\*   track 1: SetTempo @0, ControlChange @0, NoteOn ch0 60 @2, then a NoteOff
\*            cut off before its velocity byte
\*   track 2: NoteOff ch1 60 @2 (same time and tick as the NoteOn of track 1),
\*            NoteOn ch1 64 @3, EndOfTrack
FileB ==
    LoadedFile(1, 3,
        << << 0, 255, 81, 3, 0, 97, 168,   0, 176, 7, 100,   2, 144, 60, 100,   1, 128, 60 >>,
           << 2, 129, 60, 0,   1, 145, 64, 80,   0, 255, 47, 0 >> >>)

\* SMPTE division (0xE728): one tick is 1/1000 s.
\*   track 1: NoteOn 60 after delta 255 (two-byte quantity), NoteOff 60 after
\*            delta 2, EndOfTrack
\*   track 2: NoteOn ch1 61 @5, EndOfTrack
FileW ==
    LoadedFile(1, 59176,
        << << 129, 127, 144, 60, 100,   2, 128, 60, 0,   0, 255, 47, 0 >>,
           << 5, 145, 61, 100,   0, 255, 47, 0 >> >>)

\* a file without any note event
FileE ==
    LoadedFile(0, 12, << << 0, 255, 47, 0 >> >>)

Files == {FileA, FileB, FileW, FileE}

\* the files loaded in the recording runs
RecFiles == {FileA, FileE}

\* division 12, no SetTempo, one track playing on two channels:
\*   NoteOn ch0 60 @0, NoteOn ch1 62 @1, NoteOff ch0 60 @2, NoteOff ch1 62 @2,
\*   EndOfTrack
FileK ==
    LoadedFile(0, 12,
        << << 0, 144, 60, 100,   1, 145, 62, 90,   1, 128, 60, 0,   0, 129, 62, 0,
              0, 255, 47, 0 >> >>)

\* the files loaded in the runs that record under each colour mode
ColorFiles == {FileA, FileK}

\* division 3, no SetTempo (120 BPM throughout): one tick is 10 frames.
\*   track 1: NoteOn 60 @3, NoteOff 60 @6, EndOfTrack
FileC ==
    LoadedFile(0, 3, << << 3, 144, 60, 100,   3, 128, 60, 0,   0, 255, 47, 0 >> >>)

\* division 3, one SetTempo 250000 at tick 0: one tick is 5 frames.
\*   track 1: SetTempo @0, EndOfTrack
\*   track 2: NoteOn 60 @3, NoteOff 60 @6, EndOfTrack
FileT ==
    LoadedFile(1, 3,
        << << 0, 255, 81, 3, 3, 208, 144,   0, 255, 47, 0 >>,
           << 3, 144, 60, 100,   3, 128, 60, 0,   0, 255, 47, 0 >> >>)

\* division 3, tempo changes collected out of tick order and sharing a tick.
\*   track 1: SetTempo 100000 @2, SetTempo 25000 @4, SetTempo 50000 @4,
\*            NoteOn 60 @7, EndOfTrack
\*   track 2: SetTempo 250000 @1, NoteOff 60 @8, EndOfTrack
FileM ==
    LoadedFile(1, 3,
        << << 2, 255, 81, 3, 1, 134, 160,   2, 255, 81, 3, 0, 97, 168,
              0, 255, 81, 3, 0, 195, 80,    3, 144, 60, 100,   0, 255, 47, 0 >>,
           << 1, 255, 81, 3, 3, 208, 144,   7, 128, 60, 0,   0, 255, 47, 0 >> >>)

\* the files loaded in the runs that exercise the time functions
TimeFiles == {FileA, FileB, FileC, FileT, FileM, FileW, FileE}

\* the one track of the damaged buffers, and eight bytes that are no chunk header
OneTrack == << 0, 144, 60, 100,   1, 128, 60, 0,   0, 255, 47, 0 >>
Junk == << 74, 85, 78, 75, 0, 0, 0, 2 >>

\* the buffers handed to midi_load_from_memory: whole files; a foreign
\* signature; buffers shorter than a header; no track; header size 7; format
\* 3; both; a chunk longer than the buffer; a second track that is missing;
\* a foreign chunk before the track; foreign bytes and no track; a foreign
\* chunk and then a track header cut off after 7, 6 and 4 bytes
LoadBuffers ==
    { FileBytes(FileA), FileBytes(FileB), FileBytes(FileW), FileBytes(FileE),
      << 82, 73, 70, 70 >> \o SubSeq(FileBytes(FileA), 5, Len(FileBytes(FileA))),
      << >>, << 1, 2, 3 >>, << 82, 73, 70, 70, 0, 0, 0, 6, 0, 0 >>,
      SubSeq(FileBytes(FileE), 1, 10),
      HeaderChunk(6, 0, 0, 12),
      HeaderChunk(6, 0, 0, 12) \o TrackChunk(OneTrack),
      HeaderChunk(7, 0, 1, 12) \o TrackChunk(OneTrack),
      HeaderChunk(6, 3, 1, 12) \o TrackChunk(OneTrack),
      HeaderChunk(5, 4, 2, 12) \o TrackChunk(OneTrack) \o TrackChunk(OneTrack),
      HeaderChunk(6, 0, 1, 12) \o MTrk \o U32Bytes(Len(OneTrack) + 3) \o OneTrack,
      HeaderChunk(6, 1, 2, 12) \o TrackChunk(OneTrack),
      HeaderChunk(6, 1, 2, 12) \o TrackChunk(OneTrack) \o << 77, 84, 114 >>,
      HeaderChunk(6, 0, 1, 12) \o Junk \o << 9, 9 >> \o TrackChunk(OneTrack),
      HeaderChunk(6, 1, 2, 12) \o TrackChunk(OneTrack) \o Junk \o TrackChunk(OneTrack),
      HeaderChunk(6, 0, 1, 12) \o Junk \o << 9, 9, 9, 9, 9 >>,
      HeaderChunk(6, 0, 1, 12) \o Junk \o MTrk \o U32Bytes(Len(OneTrack) + 1) \o OneTrack,
      HeaderChunk(6, 0, 1, 12) \o Junk \o MTrk \o << 0, 0, 0 >>,
      HeaderChunk(6, 0, 1, 12) \o Junk \o MTrk \o << 0, 0 >>,
      HeaderChunk(6, 0, 1, 12) \o Junk \o MTrk }

\* one well-formed event each: NoteOn, ProgramChange, SetTempo, SysEx, a
\* NoteOff after a two-byte delta time, EndOfTrack
WholeEvents ==
    { << 0, 144, 60, 100 >>, << 0, 192, 5 >>, << 0, 255, 81, 3, 7, 161, 32 >>,
      << 0, 240, 2, 1, 247 >>, << 129, 0, 128, 60, 0 >>, << 0, 255, 47, 0 >> }

\* the cursors midi_read_next_event is applied to: a track that holds one event
\* cut off before its last byte, or no byte at all, and a track cut off within
\* an event under running status, its first event already read, and two tracks
\* cut off within a two-byte length
CutCursors ==
    UNION { { LoadedTrack(SubSeq(e, 1, k)) : k \in 0 .. (Len(e) - 1) } : e \in WholeEvents }
    \cup { midi_read_next_event(LoadedTrack(<< 0, 144, 60, 100 >> \o cut)).track
           : cut \in {<< 129 >>, << 1 >>, << 1, 62 >>} }
    \cup { LoadedTrack(<< 0, 255, 81, 131 >>), LoadedTrack(<< 0, 240, 129 >>) }

\* the settings of those runs: frames of 8 and of 4 bytes, and dimensions
\* whose product by 4 is beyond int
FnSettingsSet ==
    { [include_audio |-> FALSE, audio_file_path |-> "", width |-> dim[1], height |-> dim[2],
       color_mode |-> "Channel"]
      : dim \in { << 2, 1 >>, << 1, 1 >>, << 2 ^ (IntBits - 3), 1 >> } }

\* the buffer lengths WriteFrameToFFmpeg is handed there
ProbeFrameSizes == {0, 4, 8, 12}

\* the arguments TicksToSeconds is applied to there: ticks per quarter note
\* 3 and 12, SMPTE 25 fps x 40 (0xE728) and 30 fps x 80 (0xE250)
ProbeTicks == 0 .. MaxProbeTick
ProbeDivisions == {3, 12, 59176, 57936}
ProbeTempos == {DefaultTempo, 250000}

\* the settings records StartVideoOutput is called with
SettingsSet ==
    { [include_audio |-> FALSE, audio_file_path |-> "", width |-> 2, height |-> 1,
       color_mode |-> "Channel"],
      [include_audio |-> TRUE, audio_file_path |-> "", width |-> 2, height |-> 1,
       color_mode |-> "Channel"],
      [include_audio |-> TRUE, audio_file_path |-> "missing.wav", width |-> 2, height |-> 1,
       color_mode |-> "Channel"],
      [include_audio |-> TRUE, audio_file_path |-> "audio.wav", width |-> 2, height |-> 1,
       color_mode |-> "Channel"] }

\* the delta_time arguments Update is called with (seconds are irrelevant to
\* the representation: the value is never read)
\* the settings of the runs that record under each colour mode
ColorSettingsSet ==
    { [include_audio |-> FALSE, audio_file_path |-> "", width |-> 2, height |-> 1,
       color_mode |-> mode]
      : mode \in {"Channel", "Track", "Both"} }

\* the settings records SetVideoSettings is called with: frames of 4 and of
\* 8 bytes
ResizeSettingsSet ==
    { [include_audio |-> FALSE, audio_file_path |-> "", width |-> width, height |-> 1,
       color_mode |-> "Channel"]
      : width \in {1, 2} }

DeltaTimes == {0, 1}

(***************************************************************************)
(* State                                                                   *)
(***************************************************************************)
VARIABLES
    playback_state_, midi_file_, streaming_tracks_, pending_events_,
    current_time_, total_duration_, current_frame_,
    video_settings_, is_recording_, frame_count_, ffmpeg_process_,
    encoders_, pipe_writes_, written_bytes_, encoder_settings_,
    piano_keyboard_, renderer_, keys_,
    active_notes_, note_press_times_,
    current_tempo_, tempo_changes_,
    total_note_count_, processed_event_count_, total_event_count_, last_event_tick_,
    applied_, blips_,
    now,            \* std::chrono::steady_clock::now(), in milliseconds
    last_call,      \* the public method called by the last step
    last_arg,       \* the argument of that call: time_seconds of Seek, the settings
                    \* and the popen outcome of StartVideoOutput, the arguments of
                    \* a time function or of WriteFrameToFFmpeg, else 0
    last_result,    \* what a time function or WriteFrameToFFmpeg returned, else 0
    calls,          \* calls other than Update made so far
    ref_active,     \* active_notes_ of the same call sequence run with a wall clock that stands still
    ref_keys,       \* keys_ of that run
    replay_k,       \* Update calls that advanced the clock since the last Play from Stopped
                    \* not followed by Seek/Stop/load (-1 when there is none)
    replay_clean,   \* whether that Play started with an all-false ActiveNotesTable
    write_failures  \* failed frame writes so far

objvars ==
    << playback_state_, midi_file_, streaming_tracks_, pending_events_,
       current_time_, total_duration_, current_frame_,
       video_settings_, is_recording_, frame_count_, ffmpeg_process_,
       encoders_, pipe_writes_, written_bytes_, encoder_settings_,
       piano_keyboard_, renderer_, keys_,
       active_notes_, note_press_times_,
       current_tempo_, tempo_changes_,
       total_note_count_, processed_event_count_, total_event_count_, last_event_tick_,
       applied_, blips_ >>

vars == << objvars, now, last_call, last_arg, last_result, calls, ref_active, ref_keys, replay_k, replay_clean, write_failures >>

\* the object as a record
Obj ==
    [midi_file_ |-> midi_file_, streaming_tracks_ |-> streaming_tracks_,
     tempo_changes_ |-> tempo_changes_, current_tempo_ |-> current_tempo_,
     pending_events_ |-> pending_events_, applied_ |-> applied_,
     blips_ |-> blips_,
     processed_event_count_ |-> processed_event_count_, piano_keyboard_ |-> piano_keyboard_,
     keys_ |-> keys_, active_notes_ |-> active_notes_,
     note_press_times_ |-> note_press_times_, playback_state_ |-> playback_state_,
     current_time_ |-> current_time_, current_frame_ |-> current_frame_,
     total_duration_ |-> total_duration_, ffmpeg_process_ |-> ffmpeg_process_, encoders_ |-> encoders_,
     pipe_writes_ |-> pipe_writes_, written_bytes_ |-> written_bytes_,
     encoder_settings_ |-> encoder_settings_, video_settings_ |-> video_settings_,
     is_recording_ |-> is_recording_,
     frame_count_ |-> frame_count_,
     renderer_ |-> renderer_, total_note_count_ |-> total_note_count_,
     total_event_count_ |-> total_event_count_, last_event_tick_ |-> last_event_tick_]

SetObj(M) ==
    /\ playback_state_' = M.playback_state_
    /\ midi_file_' = M.midi_file_
    /\ streaming_tracks_' = M.streaming_tracks_
    /\ pending_events_' = M.pending_events_
    /\ current_time_' = M.current_time_
    /\ total_duration_' = M.total_duration_
    /\ current_frame_' = M.current_frame_
    /\ video_settings_' = M.video_settings_
    /\ is_recording_' = M.is_recording_
    /\ frame_count_' = M.frame_count_
    /\ ffmpeg_process_' = M.ffmpeg_process_
    /\ encoders_' = M.encoders_
    /\ pipe_writes_' = M.pipe_writes_
    /\ written_bytes_' = M.written_bytes_
    /\ encoder_settings_' = M.encoder_settings_
    /\ piano_keyboard_' = M.piano_keyboard_
    /\ renderer_' = M.renderer_
    /\ keys_' = M.keys_
    /\ active_notes_' = M.active_notes_
    /\ note_press_times_' = M.note_press_times_
    /\ current_tempo_' = M.current_tempo_
    /\ tempo_changes_' = M.tempo_changes_
    /\ total_note_count_' = M.total_note_count_
    /\ processed_event_count_' = M.processed_event_count_
    /\ total_event_count_' = M.total_event_count_
    /\ last_event_tick_' = M.last_event_tick_
    /\ applied_' = M.applied_
    /\ blips_' = M.blips_

\* the object of the reference run: same members, its own note table, and a
\* wall clock that has stood still since construction
RefObj ==
    [Obj EXCEPT !.active_notes_ = ref_active,
                !.keys_ = ref_keys,
                !.note_press_times_ = [note \in Notes |-> 0]]

\* the state after the constructor and a successful Initialize (main.cpp
\* creates the object and initializes it before any other call)
Init ==
    /\ playback_state_ = "Stopped"
    /\ midi_file_ = NULL
    /\ streaming_tracks_ = << >>
    /\ pending_events_ = EmptyBag
    /\ current_time_ = 0
    /\ total_duration_ = 0
    /\ current_frame_ = 0
    /\ video_settings_ = [include_audio |-> FALSE, audio_file_path |-> "",
                          width |-> 2, height |-> 1,   \* a frame of 8 bytes
                          color_mode |-> "Channel"]
    /\ is_recording_ = FALSE
    /\ frame_count_ = 0
    /\ ffmpeg_process_ = FALSE
    /\ encoders_ = 0
    /\ pipe_writes_ = 0
    /\ written_bytes_ = 0
    /\ encoder_settings_ = NULL
    /\ piano_keyboard_ = TRUE
    /\ renderer_ = TRUE
    /\ keys_ = {}
    /\ active_notes_ = {}
    /\ note_press_times_ = [note \in Notes |-> 0]
    /\ current_tempo_ = DefaultTempo
    /\ tempo_changes_ = << >>
    /\ total_note_count_ = 0
    /\ processed_event_count_ = 0
    /\ total_event_count_ = 0
    /\ last_event_tick_ = 0
    /\ applied_ = << >>
    /\ blips_ = << >>
    /\ now = 0
    /\ last_call = "Initialize"
    /\ last_arg = 0
    /\ last_result = 0
    /\ calls = 0
    /\ ref_active = {}
    /\ ref_keys = {}
    /\ replay_k = -1
    /\ replay_clean = FALSE
    /\ write_failures = 0

(***************************************************************************)
(* Steps: one public call each.  outcomes is the set of objects the call   *)
(* may leave; the reference run makes the same call (with the same order   *)
(* of equivalent queue entries) under its own clock: ref_outcomes.         *)
(***************************************************************************)
\* calls other than Update are made while stopped or during the first
\* MaxCallFrame frames of a playback, at most MaxCalls of them
InCallWindow ==
    /\ playback_state_ = "Stopped" \/ current_frame_ <= MaxCallFrame
    /\ calls < MaxCalls

Call(name, arg, outcomes, ref_outcomes) ==
    \E o \in outcomes :
        \E r \in ref_outcomes :
            /\ r.applied_ = o.applied_
            /\ SetObj(o)
            /\ ref_active' = r.active_notes_
            /\ ref_keys' = r.keys_
            /\ last_call' = name
            /\ last_arg' = arg
            /\ last_result' = 0
            /\ calls' = IF name = "Update" THEN calls ELSE calls + 1
            /\ now' = now

\* LoadMidiFile(filepath) where the parser yields one of files, or fails
LoadFrom(files) ==
    /\ InCallWindow
    /\ \E parsed \in files \cup {NULL} :
          Call("LoadMidiFile", 0,
               LoadMidiFile(Obj, parsed),
               LoadMidiFile(RefObj, parsed))
    /\ replay_k' = -1
    /\ replay_clean' = FALSE
    /\ UNCHANGED write_failures

LoadCall == LoadFrom(Files)

LoadRecCall == LoadFrom(RecFiles)

UnloadCall ==
    /\ InCallWindow
    /\ Call("UnloadMidiFile", 0,
            {UnloadMidiFile(Obj)},
            {UnloadMidiFile(RefObj)})
    /\ replay_k' = -1
    /\ replay_clean' = FALSE
    /\ UNCHANGED write_failures

\* whether Play() starts a new playback (rather than resuming or returning)
StartsNewPlayback(M) ==
    IsMidiLoaded(M) /\ M.playback_state_ # "Playing" /\ M.playback_state_ # "Paused"

PlayCall ==
    /\ InCallWindow
    /\ Call("Play", 0,
            {Play(Obj)},
            {Play(RefObj)})
    /\ replay_k' = IF StartsNewPlayback(Obj) THEN 0 ELSE replay_k
    /\ replay_clean' = IF StartsNewPlayback(Obj) THEN active_notes_ = {} ELSE replay_clean
    /\ UNCHANGED write_failures

PauseCall ==
    /\ InCallWindow
    /\ Call("Pause", 0,
            {Pause(Obj)},
            {Pause(RefObj)})
    /\ UNCHANGED << replay_k, replay_clean, write_failures >>

StopCall ==
    /\ InCallWindow
    /\ Call("Stop", 0,
            {Stop(Obj)},
            {Stop(RefObj)})
    /\ replay_k' = -1
    /\ replay_clean' = FALSE
    /\ UNCHANGED write_failures

\* the time_seconds arguments Seek is called with: before the start, a
\* point between two frames, the current position, past the end
SeekTargets ==
    IF midi_file_ = NULL
    THEN {0}
    ELSE { 0 - frame_time_(midi_file_.header.timeDivision),
           (5 * frame_time_(midi_file_.header.timeDivision)) \div 2,
           current_time_,
           total_duration_ + frame_time_(midi_file_.header.timeDivision) }

SeekCall ==
    /\ InCallWindow
    /\ \E time_seconds \in SeekTargets :
          Call("Seek", time_seconds,
               Seek(Obj, time_seconds, now),
               Seek(RefObj, time_seconds, 0))
    /\ replay_k' = IF midi_file_ = NULL THEN replay_k ELSE -1
    /\ replay_clean' = IF midi_file_ = NULL THEN replay_clean ELSE FALSE
    /\ UNCHANGED write_failures

\* whether StartVideoOutput(settings) with this popen result starts a session
StartsRecording(M, settings, spawn_ok) ==
    /\ IsMidiLoaded(M)
    /\ ~M.is_recording_
    /\ ~(settings.include_audio /\ ~AudioFileExists(settings.audio_file_path))
    /\ spawn_ok

\* StartVideoOutput(settings) with one of these settings
StartVideoOutputFrom(settings_set) ==
    /\ InCallWindow
    /\ \E settings \in settings_set, spawn_ok \in BOOLEAN :
          /\ Call("StartVideoOutput", [spawn_ok |-> spawn_ok, settings |-> settings],
                  {StartVideoOutput(Obj, settings, spawn_ok)},
                  {StartVideoOutput(RefObj, settings, spawn_ok)})
          /\ replay_k' = IF StartsRecording(Obj, settings, spawn_ok) THEN 0 ELSE replay_k
          /\ replay_clean' = IF StartsRecording(Obj, settings, spawn_ok) THEN TRUE ELSE replay_clean
          /\ UNCHANGED write_failures

StartVideoOutputCall == StartVideoOutputFrom(SettingsSet)

StartVideoOutputFnCall == StartVideoOutputFrom(FnSettingsSet)

StopVideoOutputCall ==
    /\ InCallWindow
    /\ Call("StopVideoOutput", 0,
            {StopVideoOutput(Obj)},
            {StopVideoOutput(RefObj)})
    /\ UNCHANGED << replay_k, replay_clean, write_failures >>

\* whether Update() gets past its early returns
UpdateAdvances(M) ==
    (M.playback_state_ = "Playing" \/ M.playback_state_ = "Recording") /\ IsMidiLoaded(M)

\* whether Update() reaches CaptureFrame and the frame write
UpdateWrites(M) ==
    /\ UpdateAdvances(M)
    /\ ~ReachedEnd((M.current_frame_ + 1) * frame_time_(Division(M)), M.total_duration_)
    /\ M.is_recording_ /\ M.renderer_ /\ M.ffmpeg_process_

UpdateCall ==
    \E delta_time \in DeltaTimes, write_ok \in BOOLEAN :
        /\ write_ok \/ (UpdateWrites(Obj) /\ write_failures < MaxWriteFailures)
        /\ Call("Update", 0,
                Update(Obj, delta_time, write_ok, now),
                Update(RefObj, delta_time, write_ok, 0))
        /\ write_failures' = IF write_ok THEN write_failures ELSE write_failures + 1
        /\ replay_k' = IF ~UpdateAdvances(Obj) \/ replay_k < 0
                       THEN replay_k
                       ELSE IF ReachedEnd((current_frame_ + 1) * frame_time_(Division(Obj)),
                                          total_duration_)
                       THEN -1
                       ELSE replay_k + 1
        /\ UNCHANGED replay_clean

\* wall-clock time passing between (or inside) calls
AdvanceClock ==
    /\ playback_state_ = "Stopped" \/ current_frame_ <= MaxCallFrame
    /\ now + ClockStep <= MaxWall
    /\ now' = now + ClockStep
    /\ last_call' = "AdvanceClock"
    /\ last_arg' = 0
    /\ last_result' = 0
    /\ UNCHANGED << objvars, calls, ref_active, ref_keys, replay_k, replay_clean, write_failures >>

\* playback on the wall clock, without recording
Next ==
    \/ LoadCall
    \/ UnloadCall
    \/ PlayCall
    \/ PauseCall
    \/ StopCall
    \/ SeekCall
    \/ UpdateCall
    \/ AdvanceClock

Spec == Init /\ [][Next]_vars

\* playback and recording, with the wall clock standing still
\* GetEventsInRange over the whole document, and over an empty range (a const
\* method that reads the tracks through copies)
GetEventsInRangeCall ==
    /\ InCallWindow
    /\ \E range \in {<< 0, total_duration_ >>, << 1, 0 >>} :
          \E events \in GetEventsInRange(Obj, range[1], range[2]) :
              /\ last_call' = "GetEventsInRange"
              /\ last_arg' = range
              /\ last_result' = events
              /\ calls' = calls + 1
              /\ UNCHANGED << objvars, now, ref_active, ref_keys, replay_k, replay_clean,
                              write_failures >>

NextRec ==
    \/ LoadRecCall
    \/ UnloadCall
    \/ PlayCall
    \/ PauseCall
    \/ StopCall
    \/ SeekCall
    \/ StartVideoOutputCall
    \/ StopVideoOutputCall
    \/ UpdateCall
    \/ GetEventsInRangeCall

SpecRec == Init /\ [][NextRec]_vars

CleanupCall ==
    /\ InCallWindow
    /\ Call("Cleanup", 0,
            {Cleanup(Obj)},
            {Cleanup(RefObj)})
    /\ replay_k' = -1
    /\ replay_clean' = FALSE
    /\ UNCHANGED write_failures

\* recording sessions started, stopped, abandoned and cleaned up, the clock
\* standing still
NextCleanup ==
    \/ LoadRecCall
    \/ UnloadCall
    \/ StopCall
    \/ StartVideoOutputCall
    \/ StopVideoOutputCall
    \/ UpdateCall
    \/ CleanupCall

SpecCleanup == Init /\ [][NextCleanup]_vars

\* a document is loaded only while nothing plays
LoadStoppedCall ==
    /\ playback_state_ = "Stopped"
    /\ LoadCall

\* uninterrupted playbacks on the wall clock: once Play() has started one,
\* Update is the only call that changes the object
NextPlay ==
    \/ LoadStoppedCall
    \/ PlayCall
    \/ UpdateCall
    \/ AdvanceClock

\* the step of an Update() call that gets past its early returns, by the
\* part of the state that identifies it: the frame counter goes up by one
UpdateFrame ==
    /\ UpdateAdvances(Obj)
    /\ last_call' = "Update"
    /\ current_frame_' = current_frame_ + 1

\* the render loop of main() calls Update once per iteration, for more
\* iterations than the document has frames: a playback is not left waiting
\* for its next frame for ever
SpecPlay == Init /\ [][NextPlay]_vars /\ WF_<< last_call, current_frame_ >>(UpdateFrame)

\* a document is loaded only between recording sessions
LoadIdleCall ==
    /\ playback_state_ = "Stopped"
    /\ ~is_recording_
    /\ LoadCall

\* uninterrupted recordings, the clock standing still: once StartVideoOutput
\* has started a session, Update is the only call that changes the object
NextRecord ==
    \/ LoadIdleCall
    \/ StartVideoOutputCall
    \/ UpdateCall

\* the render loop calls Update once per iteration until the session ends
SpecRecord == Init /\ [][NextRecord]_vars /\ WF_<< last_call, current_frame_ >>(UpdateFrame)

LoadColorCall == LoadFrom(ColorFiles)

StartVideoOutputColorCall == StartVideoOutputFrom(ColorSettingsSet)

\* SetVideoSettings(settings), at any point of a session or outside one
SetVideoSettingsCall ==
    /\ InCallWindow
    /\ \E settings \in ResizeSettingsSet :
          Call("SetVideoSettings", settings,
               {SetVideoSettings(Obj, settings)},
               {SetVideoSettings(RefObj, settings)})
    /\ UNCHANGED << replay_k, replay_clean, write_failures >>

\* recording under each colour mode and with settings that change during
\* the session, the clock standing still
NextColor ==
    \/ LoadColorCall
    \/ StartVideoOutputColorCall
    \/ StopVideoOutputCall
    \/ SetVideoSettingsCall
    \/ UpdateCall

SpecColor == Init /\ [][NextColor]_vars

LoadFnCall == LoadFrom(TimeFiles)

\* whether the last step applied a const time function
Probed ==
    last_call \in {"CalculateElapsedTimeFromTick", "TicksToSeconds", "midi_load_from_memory",
                   "midi_read_next_event"}

\* a const method applied to the object: nothing but the record of the call
\* changes, so a run is not followed beyond it
Probe(name, arg, result) ==
    /\ ~Probed
    /\ last_call' = name
    /\ last_arg' = arg
    /\ last_result' = result
    /\ UNCHANGED << objvars, now, calls, ref_active, ref_keys, replay_k, replay_clean,
                    write_failures >>

ElapsedTimeCall ==
    \E targetTick \in ProbeTicks :
        Probe("CalculateElapsedTimeFromTick", targetTick,
              CalculateElapsedTimeFromTick(midi_file_, tempo_changes_, current_tempo_,
                                           targetTick))

TicksToSecondsCall ==
    \E ticks \in ProbeTicks, division \in ProbeDivisions, tempo \in ProbeTempos :
        Probe("TicksToSeconds", [division |-> division, ticks |-> ticks, tempo |-> tempo],
              TicksToSeconds(ticks, division, tempo))

\* midi_load_from_memory applied to a buffer
LoadFromMemoryCall ==
    \E data \in LoadBuffers :
        \E outcome \in midi_load_from_memory(data) :
            Probe("midi_load_from_memory", data, outcome)

\* midi_read_next_event applied to a cursor, and once more to the cursor it leaves
ReadNextEventCall ==
    \E track \in CutCursors :
        LET Twice(r) == [read |-> r, again |-> midi_read_next_event(r.track)]
        IN Probe("midi_read_next_event", track, Twice(midi_read_next_event(track)))

\* WriteFrameToFFmpeg handed a buffer of frame_size bytes
WriteFrameCall ==
    /\ ~Probed
    /\ calls < MaxCalls
    /\ \E frame_size \in ProbeFrameSizes, write_ok \in BOOLEAN :
          \E w \in WriteFrameToFFmpeg(Obj, frame_size, write_ok) :
              /\ SetObj(w.obj)
              /\ last_call' = "WriteFrameToFFmpeg"
              /\ last_arg' = frame_size
              /\ last_result' = w.ok
              /\ calls' = calls + 1
              /\ UNCHANGED << now, ref_active, ref_keys, replay_k, replay_clean,
                              write_failures >>

\* the time functions and the frame write, applied to loaded documents and
\* to open and closed encoder pipes
NextFn ==
    \/ ~Probed /\ LoadFnCall
    \/ ~Probed /\ StartVideoOutputFnCall
    \/ ~Probed /\ StopVideoOutputCall
    \/ ElapsedTimeCall
    \/ TicksToSecondsCall
    \/ WriteFrameCall
    \/ LoadFromMemoryCall
    \/ ReadNextEventCall

SpecFn == Init /\ [][NextFn]_vars

(***************************************************************************)
(* Properties                                                              *)
(***************************************************************************)

\* 1/60 s in the time unit of the loaded file
FrameTime == frame_time_(IF midi_file_ = NULL THEN 0 ELSE Division(Obj))

\* the members other than playback_state_
ObjBesidesState == [Obj EXCEPT !.playback_state_ = "Stopped"]

Range(seq) == { seq[i] : i \in DOMAIN seq }

SeqToBag(seq) == [x \in Range(seq) |-> Cardinality({ i \in DOMAIN seq : seq[i] = x })]

\* the (time, tick) keys of a sequence of events
Keys(events) == [i \in DOMAIN events |-> << events[i].time_seconds, events[i].tick >>]

\* the events of a history, without the track they came from
Stamped(history) ==
    [i \in DOMAIN history |->
        [event |-> history[i].event, tick |-> history[i].tick,
         time_seconds |-> history[i].time_seconds]]

\* the Note-On/Note-Off events of track i of M's file, in stream order
TrackNoteEvents(M, i) ==
    CollectTrack(M, M.midi_file_.tracks[i], 0, M.total_duration_, << >>)

\* M's cursors and queue are those of a fresh start: every track buffers its
\* first Note-On/Note-Off event and the queue holds exactly one entry for each
\* such track
IsFreshStreaming(M) ==
    IF M.midi_file_ = NULL
    THEN M.streaming_tracks_ = << >> /\ M.pending_events_ = EmptyBag
    ELSE LET n == M.midi_file_.header.numberOfTracks
             withEvent == { i \in 1 .. n : TrackNoteEvents(M, i) # << >> }
         IN /\ Len(M.streaming_tracks_) = n
            /\ M.processed_event_count_ = 0
            /\ \A i \in 1 .. n :
                  /\ M.streaming_tracks_[i].has_event = (i \in withEvent)
                  /\ i \in withEvent =>
                        LET first == TrackNoteEvents(M, i)[1]
                        IN /\ M.streaming_tracks_[i].current_event = first.event
                           /\ M.streaming_tracks_[i].event_tick = first.tick
                           /\ M.streaming_tracks_[i].event_time = first.time_seconds
            /\ M.pending_events_ =
                  SetToBag({ [tick |-> TrackNoteEvents(M, i)[1].tick,
                              track_index |-> i,
                              time_seconds |-> TrackNoteEvents(M, i)[1].time_seconds] : i \in withEvent })

\* C1: after a fresh start the events ProcessMidiEvents has applied so far
\* are, in order, a prefix of the materialized list sorted by (time, tick),
\* up to the order of entries with identical (time, tick)
C1_MergeOrderIsSortedOrder ==
    (midi_file_ # NULL /\ replay_k >= 0) =>
        \A events \in GetEventsInRange(Obj, 0, total_duration_) :
            /\ Len(applied_) <= Len(events)
            /\ Keys(applied_) = Keys(SubSeq(events, 1, Len(applied_)))
            /\ SeqToBag(Stamped(applied_)) \sqsubseteq SeqToBag(events)

\* C2: a Seek to the position an uninterrupted replay from 0 has reached
\* (same events applied, in the same order) leaves the ActiveNotesTable the
\* replay had
C2_SeekEqualsReplay ==
    [][(/\ last_call' = "Seek"
        /\ replay_k >= 0 /\ replay_clean
        /\ current_time_' = current_time_
        /\ applied_' = applied_)
       => active_notes_' = active_notes_]_vars

\* C3 as stated: every Update call increments the frame counter by 1 and
\* sets currentTime = frame/60
C3_EveryUpdateAdvances ==
    [][last_call' = "Update"
       => /\ current_frame_' = current_frame_ + 1
          /\ current_time_' = current_frame_' * FrameTime]_vars

\* C3 amended: an Update made while playing a loaded file increments the
\* frame counter by 1 and sets currentTime = frame/60, whatever delta_time,
\* except that the Update which reaches the end outside a recording leaves
\* currentTime = 0; K such calls after a start from Stopped (no Seek since)
\* leave currentTime = K/60; any other Update changes nothing
C3_FrameClock ==
    [][last_call' = "Update"
       => IF (playback_state_ = "Playing" \/ playback_state_ = "Recording") /\ midi_file_ # NULL
          THEN /\ current_frame_' = current_frame_ + 1
               /\ \/ current_time_' = current_frame_' * FrameTime
                  \/ /\ current_frame_' * FrameTime >= total_duration_
                     /\ ~is_recording_
                     /\ current_time_' = 0
               /\ replay_k' >= 0 => /\ replay_k' = replay_k + 1
                                    /\ current_time_' = replay_k' * FrameTime
          ELSE Obj' = Obj]_vars

C3_Witness ==
    /\ last_call = "Update"
    /\ playback_state_ = "Playing"
    /\ replay_k = 3
    /\ current_time_ = 3 * FrameTime

\* C4: the note table and the pressed keys are those of the same calls made
\* with no wall-clock time elapsing
C4_WallClockIndependent ==
    active_notes_ = ref_active /\ keys_ = ref_keys

\* C5: the Update that brings currentTime to totalDuration or beyond ends
\* playback in that call: a recording is finalized and ended, otherwise
\* Stop() is performed; the state is Stopped, no event is applied and no
\* frame is captured
C5_EndOfPlayback ==
    [][(/\ last_call' = "Update"
        /\ (playback_state_ = "Playing" \/ playback_state_ = "Recording")
        /\ midi_file_ # NULL
        /\ (current_frame_ + 1) * FrameTime >= total_duration_)
       => /\ playback_state_' = "Stopped"
          /\ frame_count_' = frame_count_
          /\ IF is_recording_
             THEN /\ ~is_recording_' /\ ~ffmpeg_process_'
                  /\ applied_' = applied_
                  /\ processed_event_count_' = processed_event_count_
                  /\ active_notes_' = active_notes_ /\ keys_' = keys_
                  /\ pending_events_' = pending_events_
                  /\ streaming_tracks_' = streaming_tracks_
             ELSE /\ current_time_' = 0
                  /\ active_notes_' = {} /\ keys_' = {}
                  /\ applied_' = << >>
                  /\ IsFreshStreaming(Obj')]_vars

\* a recording that ran from its first frame to the end of the file
C5_Witness ==
    /\ last_call = "Update"
    /\ playback_state_ = "Stopped"
    /\ midi_file_ # NULL
    /\ current_frame_ * FrameTime >= total_duration_
    /\ current_time_ = current_frame_ * FrameTime
    /\ ~is_recording_ /\ ~ffmpeg_process_
    /\ frame_count_ = current_frame_ - 1
    /\ frame_count_ > 0

\* C6: Play() from Stopped sets the frame to 0 and rebuilds the streaming
\* state, then is Playing; from Paused it is Playing with every other member
\* unchanged; with no file, or when already Playing, it changes nothing
C6_Play ==
    [][last_call' = "Play"
       => IF midi_file_ = NULL \/ playback_state_ = "Playing"
          THEN Obj' = Obj
          ELSE IF playback_state_ = "Paused"
          THEN playback_state_' = "Playing" /\ ObjBesidesState' = ObjBesidesState
          ELSE /\ playback_state_' = "Playing"
               /\ current_frame_' = 0
               /\ current_time_' = 0
               /\ IsFreshStreaming(Obj')]_vars

\* a resumed playback, and one restarted over a stale frame counter
C6_Witness ==
    /\ last_call = "Play"
    /\ playback_state_ = "Playing"
    /\ current_frame_ > 0
    /\ applied_ # << >>

\* C7: Pause() turns Playing into Paused and touches nothing else; in any
\* other state it changes nothing
C7_Pause ==
    [][last_call' = "Pause"
       => IF playback_state_ = "Playing"
          THEN playback_state_' = "Paused" /\ ObjBesidesState' = ObjBesidesState
          ELSE Obj' = Obj]_vars

C7_Witness ==
    /\ last_call = "Pause"
    /\ playback_state_ = "Paused"
    /\ current_frame_ > 0
    /\ active_notes_ # {}

\* C8: after Stop() the state is Stopped, no key is pressed, no note is
\* active, and the cursors and queue are those of a fresh start
C8_Stop ==
    [][last_call' = "Stop"
       => /\ playback_state_' = "Stopped"
          /\ keys_' = {}
          /\ active_notes_' = {}
          /\ IsFreshStreaming(Obj')]_vars

\* Stop() in the middle of a playback of a file with two sounding tracks
C8_Witness ==
    /\ last_call = "Stop"
    /\ midi_file_ # NULL
    /\ current_frame_ > 0
    /\ BagCardinality(pending_events_) = 2

\* C9: Seek(t) with a file loaded sets currentTime to t clamped to
\* [0, totalDuration] and leaves the playback state and the recording as
\* they were; with no file it changes nothing
C9_Seek ==
    [][last_call' = "Seek"
       => IF midi_file_ = NULL
          THEN Obj' = Obj
          ELSE /\ current_time_' = Max(0, Min(last_arg', total_duration_))
               /\ playback_state_' = playback_state_
               /\ is_recording_' = is_recording_
               /\ ffmpeg_process_' = ffmpeg_process_
               /\ frame_count_' = frame_count_]_vars

\* a Seek past the end, made while recording
C9_Witness ==
    /\ last_call = "Seek"
    /\ is_recording_
    /\ playback_state_ = "Playing"
    /\ last_arg > total_duration_
    /\ current_time_ = total_duration_

\* C10: when Stop, StopVideoOutput or UnloadMidiFile returns, no pipe handle
\* is open
C10_StopCallsDrainEncoder ==
    [][last_call' \in {"Stop", "StopVideoOutput", "UnloadMidiFile"}
       => ~ffmpeg_process_']_vars

\* C11: a failed frame write aborts the recording session: the frame is not
\* counted and the session is over (no recording, no pipe), and once a write
\* has failed in a session no later frame is written to its encoder.  A
\* session has had a failed write when the pipe has taken more fwrite calls
\* than frames were counted.
C11_FailedWriteAbortsSession ==
    [][ /\ (write_failures' > write_failures)
             => (frame_count_' = frame_count_ /\ ~is_recording_' /\ ~ffmpeg_process_')
        /\ (ffmpeg_process_ /\ pipe_writes_ > frame_count_)
             => (pipe_writes_' <= pipe_writes_) ]_vars

\* C12: WriteFrameToFFmpeg returns failure and writes nothing when the buffer
\* length differs from width*height*4 of the current settings, and when no
\* encoder process is open.
C12_WriteFrameRejects ==
    [][ (/\ last_call' = "WriteFrameToFFmpeg"
         /\ \/ last_arg' # video_settings_.width * video_settings_.height * 4
            \/ ~ffmpeg_process_)
        => (last_result' = FALSE /\ pipe_writes_' = pipe_writes_) ]_vars

\* include_audio with an empty or nonexistent audio_file_path
BadAudio(settings) ==
    settings.include_audio /\ settings.audio_file_path \notin ExistingAudioFiles

\* C13 as stated: StartVideoOutput with include_audio and an empty or
\* nonexistent audio file returns failure, spawns nothing, leaves
\* is_recording false and the playback state unchanged.
C13_BadAudioLeavesNotRecording ==
    [][ (last_call' = "StartVideoOutput" /\ BadAudio(last_arg'.settings))
        => /\ ~StartsRecording(Obj, last_arg'.settings, last_arg'.spawn_ok)
           /\ encoders_' = encoders_
           /\ ffmpeg_process_' = ffmpeg_process_
           /\ ~is_recording_'
           /\ playback_state_' = playback_state_ ]_vars

\* C13: StartVideoOutput with include_audio and an empty or nonexistent audio
\* file returns failure, spawns nothing, and leaves is_recording and the
\* playback state as they were (is_recording false unless a recording was
\* already in progress).
C13_BadAudioRejected ==
    [][ (last_call' = "StartVideoOutput" /\ BadAudio(last_arg'.settings))
        => /\ ~StartsRecording(Obj, last_arg'.settings, last_arg'.spawn_ok)
           /\ encoders_' = encoders_
           /\ ffmpeg_process_' = ffmpeg_process_
           /\ is_recording_' = is_recording_
           /\ playback_state_' = playback_state_ ]_vars

\* a call rejected by the audio checks (the settings were taken over, so the
\* checks were reached), for an empty and for a nonexistent path
C13_Witness ==
    /\ last_call = "StartVideoOutput"
    /\ BadAudio(last_arg.settings)
    /\ last_arg.settings.audio_file_path # ""
    /\ last_arg.spawn_ok
    /\ video_settings_ = last_arg.settings
    /\ midi_file_ # NULL
    /\ ~is_recording_ /\ ~ffmpeg_process_
    /\ playback_state_ = "Playing"

\* C14: when the spawn of the encoder fails, StartVideoOutput returns failure,
\* keeps no process handle, leaves is_recording false, does not reset the
\* frame count and leaves the playback state and position unchanged.
C14_SpawnFailure ==
    [][ (/\ last_call' = "StartVideoOutput"
         /\ midi_file_ # NULL /\ ~is_recording_
         /\ ~BadAudio(last_arg'.settings)
         /\ ~last_arg'.spawn_ok)
        => /\ ~StartsRecording(Obj, last_arg'.settings, last_arg'.spawn_ok)
           /\ ~ffmpeg_process_' /\ encoders_' = 0
           /\ ~is_recording_'
           /\ frame_count_' = frame_count_
           /\ playback_state_' = playback_state_
           /\ current_time_' = current_time_
           /\ current_frame_' = current_frame_ ]_vars

\* a failed spawn after an earlier session that counted frames, during a
\* playback
C14_Witness ==
    /\ last_call = "StartVideoOutput"
    /\ ~last_arg.spawn_ok /\ ~BadAudio(last_arg.settings)
    /\ video_settings_ = last_arg.settings
    /\ midi_file_ # NULL /\ ~is_recording_ /\ ~ffmpeg_process_
    /\ frame_count_ > 0

\* C15: at most one encoder process is alive at any time, and StartVideoOutput
\* called while a recording is in progress returns failure, spawns nothing
\* and leaves the session (settings, frame count, playback state) unchanged.
C15_OneEncoderPerSession ==
    [][ /\ encoders_' <= 1
        /\ (last_call' = "StartVideoOutput" /\ is_recording_)
             => /\ ~StartsRecording(Obj, last_arg'.settings, last_arg'.spawn_ok)
                /\ encoders_' = encoders_
                /\ ffmpeg_process_' = ffmpeg_process_
                /\ is_recording_'
                /\ video_settings_' = video_settings_
                /\ frame_count_' = frame_count_
                /\ playback_state_' = playback_state_ ]_vars

\* a second StartVideoOutput, with other settings and a popen that would
\* succeed, during a session that has counted frames
C15_Witness ==
    /\ last_call = "StartVideoOutput"
    /\ last_arg.spawn_ok /\ ~BadAudio(last_arg.settings)
    /\ last_arg.settings # video_settings_
    /\ is_recording_ /\ ffmpeg_process_ /\ encoders_ = 1
    /\ frame_count_ > 0
    /\ playback_state_ = "Playing"

\* C16: CalculateElapsedTimeFromTick is non-decreasing in its tick argument
\* for every tempo map built from a document: no tick below the one asked for
\* has a greater elapsed time, and none has a negative one.
C16_ElapsedTimeMonotone ==
    last_call = "CalculateElapsedTimeFromTick"
    => \A a \in ProbeTicks :
          a <= last_arg
          => /\ 0 <= CalculateElapsedTimeFromTick(midi_file_, tempo_changes_,
                                                  current_tempo_, a)
             /\ CalculateElapsedTimeFromTick(midi_file_, tempo_changes_,
                                             current_tempo_, a) <= last_result

\* the elapsed time of a tick behind the last of several tempo changes, two of
\* them sharing a tick
C16_Witness ==
    /\ last_call = "CalculateElapsedTimeFromTick"
    /\ midi_file_ # NULL
    /\ Len(tempo_changes_) > 3
    /\ last_arg > tempo_changes_[Len(tempo_changes_)].tick
    /\ tempo_changes_[Len(tempo_changes_)].tick > 0
    /\ last_result > 0

\* C17: in a file with a single constant tempo (no SetTempo, or SetTempo
\* events of one value all at tick 0) and a ticks-per-quarter division, an
\* event at tick k*division is scheduled at k*(tempo/1e6) seconds: this holds
\* of the elapsed time of every such tick and of the event_time of every
\* buffered event at such a tick.
C17_ConstantTempoSchedule ==
    LET Scheduled(division, collected) ==
            LET tempo == IF Len(collected) = 1 THEN DefaultTempo ELSE collected[2].tempo
                Seconds(k) == k * tempo * (UnitsPerSecond(division) \div MicrosPerSecond)
            IN (/\ division > 0 /\ division < SmpteFlag
                /\ \A i \in 2 .. Len(collected) :
                      collected[i].tick = 0 /\ collected[i].tempo = tempo)
               => /\ (last_call = "CalculateElapsedTimeFromTick" /\ last_arg % division = 0)
                       => last_result = Seconds(last_arg \div division)
                  /\ \A i \in 1 .. Len(streaming_tracks_) :
                        (/\ streaming_tracks_[i].has_event
                         /\ streaming_tracks_[i].event_tick % division = 0)
                        => streaming_tracks_[i].event_time
                             = Seconds(streaming_tracks_[i].event_tick \div division)
    IN midi_file_ # NULL
       => Scheduled(midi_file_.header.timeDivision, PreScan(midi_file_).tempo_changes)

\* C18 as stated: totalDuration is the elapsed time of the last note tick plus
\* 2.0 s for every loaded document, the last note tick being 0 when the
\* document has no note event.
C18_TotalDurationAlwaysTail ==
    midi_file_ # NULL
    => total_duration_
         = CalculateElapsedTimeFromTick(midi_file_, tempo_changes_, current_tempo_,
                                        last_event_tick_)
           + TailSeconds * UnitsPerSecond(midi_file_.header.timeDivision)

\* C18: for every loaded document with at least one note event totalDuration
\* is the elapsed time of the largest note tick of the pre-scan plus 2.0 s;
\* for a document without note events it is 0.
C18_TotalDuration ==
    midi_file_ # NULL
    => /\ last_event_tick_ = PreScan(midi_file_).last_event_tick
       /\ total_duration_
            = IF total_event_count_ = 0
              THEN 0
              ELSE CalculateElapsedTimeFromTick(midi_file_, tempo_changes_, current_tempo_,
                                                last_event_tick_)
                   + TailSeconds * UnitsPerSecond(midi_file_.header.timeDivision)

\* a loaded document with tempo changes whose last note is not at tick 0
C18_Witness ==
    /\ midi_file_ # NULL
    /\ total_event_count_ > 0
    /\ last_event_tick_ > 0
    /\ Len(tempo_changes_) > 3
    /\ total_duration_ > TailSeconds * UnitsPerSecond(midi_file_.header.timeDivision)

\* C19: with bit 15 of the division set TicksToSeconds returns
\* ticks / (fps * ticksPerFrame) seconds, fps = -(signed high byte) and
\* ticksPerFrame = low byte, whatever the tempo; otherwise it returns
\* (ticks / division) * (tempo / 1000000) seconds.
C19_TicksToSeconds ==
    last_call = "TicksToSeconds"
    => LET framerate == 256 - (last_arg.division \div 256)
           ticksPerFrame == last_arg.division % 256
       IN IF last_arg.division >= SmpteFlag
          THEN last_result * (framerate * ticksPerFrame)
                 = last_arg.ticks * UnitsPerSecond(last_arg.division)
          ELSE last_result
                 = last_arg.ticks * last_arg.tempo
                   * (UnitsPerSecond(last_arg.division)
                        \div (MicrosPerSecond * last_arg.division))

\* C20: after a load the tempo list is ascending by tick, starts with an entry
\* at tick 0 (the default 500000 when no SetTempo is at tick 0), and entries
\* sharing a tick are in the order they were collected in.
C20_TempoListStableSorted ==
    midi_file_ # NULL
    => LET Stable(collected, n) ==
               /\ Len(tempo_changes_) = n
               /\ IsSortedByTick(tempo_changes_)
               /\ tempo_changes_[1].tick = 0
               /\ (\A i \in 2 .. n : collected[i].tick # 0)
                     => tempo_changes_[1].tempo = DefaultTempo
               /\ \E p \in [1 .. n -> 1 .. n] :
                     /\ \A i \in 1 .. n : tempo_changes_[i] = collected[p[i]]
                     /\ \A i, j \in 1 .. n :
                           (i < j /\ tempo_changes_[i].tick = tempo_changes_[j].tick)
                           => p[i] < p[j]
           Collected(collected) == Stable(collected, Len(collected))
       IN Collected(PreScan(midi_file_).tempo_changes)

\* C21: in every reachable state the pending-event queue holds, for each
\* track whose lookahead buffer holds an event, exactly one entry, carrying
\* that buffer's time and tick, and no entry for any other track; so its size
\* never exceeds the number of tracks.
C21_OneQueuedEntryPerTrack ==
    /\ QueueSize(pending_events_) <= Len(streaming_tracks_)
    /\ \A e \in BagToSet(pending_events_) :
          /\ e.track_index \in 1 .. Len(streaming_tracks_)
          /\ CopiesIn(e, pending_events_) = 1
          /\ streaming_tracks_[e.track_index].has_event
          /\ e.time_seconds = streaming_tracks_[e.track_index].event_time
          /\ e.tick = streaming_tracks_[e.track_index].event_tick
    /\ \A i \in 1 .. Len(streaming_tracks_) :
          streaming_tracks_[i].has_event
          => \E e \in BagToSet(pending_events_) : e.track_index = i

\* during a playback that has applied events: one track still has an event
\* buffered and queued, another has run out
C21_Witness ==
    /\ playback_state_ = "Playing"
    /\ applied_ # << >>
    /\ Len(streaming_tracks_) = 2
    /\ QueueSize(pending_events_) = 1
    /\ \E i \in 1 .. 2 : ~streaming_tracks_[i].has_event

\* the note table after the note events of these history entries, in order
RECURSIVE NotesAfter(_, _)
NotesAfter(notes, entries) ==
    IF entries = << >>
    THEN notes
    ELSE LET event == Head(entries).event
         IN NotesAfter(IF event.data1 \notin Notes
                       THEN notes
                       ELSE IF event.eventType = MIDI_EVENT_NOTE_ON /\ event.data2 > 0
                       THEN notes \cup {event.data1}
                       ELSE notes \ {event.data1},
                       Tail(entries))

\* C22: the note table is changed only by ProcessMidiEvents and Seek: Play,
\* Pause, StartVideoOutput and StopVideoOutput leave it as it is, and an
\* Update that goes on playing leaves it as the events it applied left it.
C22_NoteTableOwners ==
    [][ /\ (last_call' \in {"Play", "Pause", "StartVideoOutput", "StopVideoOutput"})
             => (active_notes_' = active_notes_)
        /\ (/\ last_call' = "Update"
            /\ playback_state_' = playback_state_
            /\ Len(applied_') >= Len(applied_)
            /\ SubSeq(applied_', 1, Len(applied_)) = applied_)
             => (active_notes_'
                   = NotesAfter(active_notes_,
                                SubSeq(applied_', Len(applied_) + 1, Len(applied_')))) ]_vars

\* C23: the order in which queue entries of identical (time, tick) are
\* popped does not affect the note table: every order ProcessMidiEvents may
\* take up to the next frame time leaves the same active_notes_.
C23_TieOrderIrrelevant ==
    midi_file_ # NULL
    => \A a, b \in ProcessMidiEvents(Obj, current_time_ + frame_time_(Division(Obj)), now) :
          a.active_notes_ = b.active_notes_

(***************************************************************************)
(* Loading: header and track chunk validation                              *)
(***************************************************************************)

\* the first four bytes of the buffer are this signature
BeginsWith(data, signature) == Len(data) >= 4 /\ SubSeq(data, 1, 4) = signature

\* the buffer with header size 6 and format 0 in its header, all else as in data
StandardHeader(data) ==
    HeaderChunk(6, 0, ReadU16(data, 10), ReadU16(data, 12)) \o SubSeq(data, 15, Len(data))

\* the warnings the header fields of the buffer call for
HeaderWarnings(data) ==
    (IF SubSeq(data, 5, 8) # U32Bytes(6) THEN {"Non-standard header size"} ELSE {})
    \cup (IF ReadU16(data, 8) > 2 THEN {"Unsupported format type"} ELSE {})

\* the outcome r of loading data is the outcome of loading it with a standard
\* header, but for the warnings and the format stored
LoadProceeds(data, r) ==
    \E r0 \in midi_load_from_memory(StandardHeader(data)) :
        /\ r.result = r0.result
        /\ r.warnings = r0.warnings \cup HeaderWarnings(data)
        /\ (r.file = NULL) = (r0.file = NULL)
        /\ r.file # NULL
           => /\ r.file.tracks = r0.file.tracks
              /\ r.file.header = [r0.file.header EXCEPT !.formatType = ReadU16(data, 8)]

\* C24 as stated: a buffer that does not begin with "MThd" fails with
\* InvalidHeader, a header announcing no track fails the load, and a header
\* size other than 6 or a format above 2 only adds a warning to what the load
\* would otherwise do.
C24_HeaderValidation ==
    last_call = "midi_load_from_memory"
    => /\ ~BeginsWith(last_arg, MThd)
          => /\ last_result.result = "MIDI_PARSE_ERROR_INVALID_HEADER"
             /\ last_result.file = NULL
       /\ (BeginsWith(last_arg, MThd) /\ Len(last_arg) >= 14 /\ ReadU16(last_arg, 10) = 0)
          => /\ last_result.result # "MIDI_PARSE_SUCCESS"
             /\ last_result.file = NULL
       /\ (BeginsWith(last_arg, MThd) /\ Len(last_arg) >= 14 /\ ReadU16(last_arg, 10) > 0)
          => LoadProceeds(last_arg, last_result)

\* C24, amended: a buffer shorter than the 14 header bytes fails with
\* CorruptedData whatever it begins with; a buffer of at least 14 bytes that
\* does not begin with "MThd" fails with InvalidHeader; a header announcing no
\* track fails the load with CorruptedData; a header size other than 6 or a
\* format above 2 only adds a warning to what the load would otherwise do.
C24_HeaderValidationOfFullHeader ==
    last_call = "midi_load_from_memory"
    => /\ Len(last_arg) < 14
          => /\ last_result.result = "MIDI_PARSE_ERROR_CORRUPTED_DATA"
             /\ last_result.file = NULL
       /\ (Len(last_arg) >= 14 /\ ~BeginsWith(last_arg, MThd))
          => /\ last_result.result = "MIDI_PARSE_ERROR_INVALID_HEADER"
             /\ last_result.file = NULL
       /\ (BeginsWith(last_arg, MThd) /\ Len(last_arg) >= 14 /\ ReadU16(last_arg, 10) = 0)
          => /\ last_result.result = "MIDI_PARSE_ERROR_CORRUPTED_DATA"
             /\ last_result.file = NULL
       /\ (BeginsWith(last_arg, MThd) /\ Len(last_arg) >= 14 /\ ReadU16(last_arg, 10) > 0)
          => LoadProceeds(last_arg, last_result)

\* a load that went through with both header warnings
C24_Witness ==
    /\ last_call = "midi_load_from_memory"
    /\ last_result.result = "MIDI_PARSE_SUCCESS"
    /\ last_result.warnings = {"Non-standard header size", "Unsupported format type"}
    /\ Len(last_result.file.tracks) = 2

\* the offset of the first "MTrk" at or after offset from, or -1
NextMTrk(data, from) ==
    LET Least(at) == IF at = {} THEN -1 ELSE CHOOSE q \in at : \A r \in at : q <= r
    IN Least({q \in from .. (Len(data) - 4) : SubSeq(data, q + 1, q + 4) = MTrk})

\* the chunk rules over the buffer from offset pos on, n tracks being due: a
\* chunk longer than the rest of the buffer is corrupted data, a foreign chunk
\* is skipped up to the next "MTrk", where the same rules apply
RECURSIVE ChunkRule(_, _, _, _)
ChunkRule(data, pos, n, tracks) ==
    IF n = 0
    THEN [tracks |-> tracks, result |-> "MIDI_PARSE_SUCCESS"]
    ELSE IF Len(data) - pos < 8
    THEN [tracks |-> << >>, result |-> "MIDI_PARSE_ERROR_CORRUPTED_DATA"]
    ELSE IF SubSeq(data, pos + 1, pos + 4) = MTrk
    THEN LET Content(chunkSize) ==
                 IF chunkSize > Len(data) - (pos + 8)
                 THEN [tracks |-> << >>, result |-> "MIDI_PARSE_ERROR_CORRUPTED_DATA"]
                 ELSE ChunkRule(data, pos + 8 + chunkSize, n - 1,
                                Append(tracks,
                                       LoadedTrack(SubSeq(data, pos + 9, pos + 8 + chunkSize))))
         IN Content(SwapU32(SubSeq(data, pos + 5, pos + 8)))
    ELSE LET Resume(found) ==
                 IF found < 0
                 THEN [tracks |-> << >>, result |-> "MIDI_PARSE_ERROR_CORRUPTED_DATA"]
                 ELSE ChunkRule(data, found, n, tracks)
         IN Resume(NextMTrk(data, pos + 8))

\* C25: under a valid header, a track chunk longer than the rest of the buffer
\* fails the load with CorruptedData; a chunk that does not start with "MTrk"
\* is skipped up to the next "MTrk", where parsing resumes under the same
\* rules, and the load fails with CorruptedData when there is none.
C25_TrackChunkValidation ==
    (/\ last_call = "midi_load_from_memory"
     /\ Len(last_arg) >= 14 /\ BeginsWith(last_arg, MThd) /\ ReadU16(last_arg, 10) > 0)
    => LET Agrees(want) ==
               /\ last_result.result = want.result
               /\ (want.result = "MIDI_PARSE_SUCCESS") => (last_result.file.tracks = want.tracks)
       IN Agrees(ChunkRule(last_arg, 14, ReadU16(last_arg, 10), << >>))

(***************************************************************************)
(* Reading an event that is cut off                                        *)
(***************************************************************************)

\* C27: a read on a cursor whose track ends within the event (in the delta
\* time, before the status byte, within the data bytes, before the meta type,
\* within the meta or SysEx length or payload) marks the cursor ended and
\* yields no event, the next read yields no event either, and the read
\* position stays within the track.
C27_CutEventEndsCursor ==
    last_call = "midi_read_next_event"
    => /\ ~last_result.read.ok
       /\ last_result.read.track.ended
       /\ ~last_result.again.ok
       /\ last_result.read.track.current <= last_arg.size
       /\ last_result.again.track.current <= last_arg.size

(***************************************************************************)
(* A track with damaged event data                                         *)
(***************************************************************************)

\* the note events a cursor yields from its position on, each with its tick
RECURSIVE NoteEventsOf(_)
NoteEventsOf(track) ==
    LET Body(l) ==
            IF ~l.found
            THEN << >>
            ELSE << [event |-> l.event, tick |-> l.track_state.currentTick] >>
                 \o NoteEventsOf(l.track_state)
    IN Body(LoadLoop(track, DefaultTempo))

\* the applied events of track i, in the order of their application
RECURSIVE AppliedOf(_, _)
AppliedOf(entries, i) ==
    IF entries = << >>
    THEN << >>
    ELSE (IF Head(entries).track_index = i
          THEN << [event |-> Head(entries).event, tick |-> Head(entries).tick] >>
          ELSE << >>)
         \o AppliedOf(Tail(entries), i)

\* the event track i holds in its lookahead buffer, if any
BufferedOf(state) ==
    IF state.has_event
    THEN << [event |-> state.current_event, tick |-> state.event_tick] >>
    ELSE << >>

\* the buffer without its last byte: its last track chunk is longer than the
\* bytes that remain
CutShort(data) == SubSeq(data, 1, Len(data) - 1)

\* C26 as stated: CorruptedData met in one track does not fail the load as a
\* whole, and the tracks parsed before it remain loaded.
C26_CorruptedTrackKeepsLoad ==
    midi_file_ # NULL
    => \A r \in midi_load_from_memory(CutShort(FileBytes(midi_file_))) :
          /\ r.file # NULL
          /\ \A i \in 1 .. (Len(midi_file_.tracks) - 1) :
                r.file.tracks[i] = midi_file_.tracks[i]

\* C26, amended: event data that is cut off within a track raises no error;
\* the load yields every track (a chunk that does not fit in the buffer does
\* fail the whole load with CorruptedData), the damaged track ends at the
\* damage and every note event of every track is, at any time, applied, held
\* in its lookahead buffer or still ahead of its cursor, in track order.
C26_DamagedTrackEndsAlone ==
    midi_file_ # NULL
    => /\ midi_load_from_memory(FileBytes(midi_file_))
            = {[file |-> midi_file_, result |-> "MIDI_PARSE_SUCCESS", warnings |-> {}]}
       /\ \A r \in midi_load_from_memory(CutShort(FileBytes(midi_file_))) :
             r.result = "MIDI_PARSE_ERROR_CORRUPTED_DATA" /\ r.file = NULL
       /\ Len(streaming_tracks_) = Len(midi_file_.tracks)
       /\ \A i \in 1 .. Len(streaming_tracks_) :
             AppliedOf(applied_, i) \o BufferedOf(streaming_tracks_[i])
                 \o NoteEventsOf(streaming_tracks_[i].track_state)
             = NoteEventsOf(midi_file_.tracks[i])

\* during playback a track has ended within an event and an event of another
\* track at a later tick has been applied since
C26_Witness ==
    /\ midi_file_ # NULL
    /\ last_call = "Update"
    /\ playback_state_ = "Playing"
    /\ applied_ # << >>
    /\ \E i \in 1 .. Len(streaming_tracks_) :
          /\ streaming_tracks_[i].track_state.ended
          /\ streaming_tracks_[i].track_state.current < streaming_tracks_[i].track_state.size
          /\ applied_[Len(applied_)].track_index # i
          /\ \A k \in 1 .. Len(applied_) :
                applied_[k].track_index = i => applied_[k].tick < applied_[Len(applied_)].tick

(***************************************************************************)
(* Blip colours                                                            *)
(***************************************************************************)

\* the applied event is a Note-On with a velocity above 0
IsNoteOnEntry(entry) ==
    entry.event.eventType = MIDI_EVENT_NOTE_ON /\ entry.event.data2 > 0

\* C28: while a recording runs, every Note-On with velocity > 0 applied has
\* emitted one blip on its key; under color_mode Channel the blip has the
\* colour of the event's channel, under color_mode Track the colour depends on
\* the event's track only (two blips of the same track have the same colour).
C28_BlipColourFollowsMode ==
    is_recording_
    => LET Keyed(ons) ==
               /\ Len(blips_) = Len(ons)
               /\ \A k \in 1 .. Len(ons) :
                     /\ blips_[k].note = ons[k].event.data1
                     /\ video_settings_.color_mode = "Channel"
                        => blips_[k].color = GetChannelColor(ons[k].event.channel)
                     /\ video_settings_.color_mode = "Track"
                        => \A j \in 1 .. Len(ons) :
                              ons[j].track_index = ons[k].track_index
                              => blips_[j].color = blips_[k].color
       IN Keyed(SelectSeq(applied_, IsNoteOnEntry))

(***************************************************************************)
(* The document after the load                                             *)
(***************************************************************************)

\* C29: whatever has been called since the load (Play, Pause, Stop, Seek,
\* Update, GetEventsInRange, StartVideoOutput, StopVideoOutput), every track
\* of the document has the read position, running status, tick and ended flag
\* the load gave it; the cursors that advance are those of the streaming
\* state.
C29_DocumentImmutable ==
    midi_file_ # NULL
    => /\ \A i \in DOMAIN midi_file_.tracks :
             /\ midi_file_.tracks[i].current = 0
             /\ midi_file_.tracks[i].runningStatus = 0
             /\ midi_file_.tracks[i].currentTick = 0
             /\ ~midi_file_.tracks[i].ended
       /\ \A i \in 1 .. Len(streaming_tracks_) :
             /\ streaming_tracks_[i].track_state.data = midi_file_.tracks[i].data
             /\ streaming_tracks_[i].track_state.size = midi_file_.tracks[i].size

\* a recording has played past the first events: a streaming cursor has
\* advanced to the end of its track, the document's track has not moved
C29_Witness ==
    /\ midi_file_ # NULL
    /\ is_recording_
    /\ last_call \in {"Update", "GetEventsInRange"}
    /\ processed_event_count_ > 0
    /\ \E i \in 1 .. Len(streaming_tracks_) :
          /\ streaming_tracks_[i].track_state.ended
          /\ streaming_tracks_[i].track_state.current > 0
          /\ midi_file_.tracks[i].current = 0

(***************************************************************************)
(* What one ProcessMidiEvents pass applies                                 *)
(***************************************************************************)

\* the note events of track i of object M that are applied, buffered or ahead
\* of the cursor, in this order
TrackEvents(applied, state, i) ==
    AppliedOf(applied, i) \o BufferedOf(state) \o NoteEventsOf(state.track_state)

\* C30: an Update that lets the playback go on has run ProcessMidiEvents with
\* the new current time.  After it no buffered event and no queue entry is due
\* (time <= current time + epsilon); the events applied by the pass were all
\* due and each was applied once, in track order (per track, the events
\* applied, buffered and still ahead are the same sequence as before); an
\* event buffered before the pass that is not due is still buffered and
\* queued, and the count of processed events has grown by the events applied.
C30_DueEventsAppliedOnce ==
    [][ (/\ last_call' = "Update"
         /\ midi_file_ # NULL
         /\ playback_state_ \in {"Playing", "Recording"}
         /\ playback_state_' = playback_state_
         /\ current_frame_' = current_frame_ + 1)
        => LET limit == current_time_' + kTimeEpsilon(Division(Obj))
           IN /\ Len(applied_') >= Len(applied_)
              /\ SubSeq(applied_', 1, Len(applied_)) = applied_
              /\ processed_event_count_' = processed_event_count_ + (Len(applied_') - Len(applied_))
              /\ \A k \in (Len(applied_) + 1) .. Len(applied_') :
                    applied_'[k].time_seconds <= limit
              /\ \A e \in BagToSet(pending_events_') : e.time_seconds > limit
              /\ Len(streaming_tracks_') = Len(streaming_tracks_)
              /\ \A i \in 1 .. Len(streaming_tracks_) :
                    /\ streaming_tracks_'[i].has_event
                       => streaming_tracks_'[i].event_time > limit
                    /\ TrackEvents(applied_', streaming_tracks_'[i], i)
                         = TrackEvents(applied_, streaming_tracks_[i], i)
                    /\ (streaming_tracks_[i].has_event
                        /\ streaming_tracks_[i].event_time > limit)
                       => /\ streaming_tracks_'[i] = streaming_tracks_[i]
                          /\ \E e \in BagToSet(pending_events_') : e.track_index = i ]_vars

\* a pass has applied two events and left a later one buffered and queued
C30_Witness ==
    /\ last_call = "Update"
    /\ playback_state_ = "Playing"
    /\ Len(applied_) >= 2
    /\ applied_[Len(applied_)].time_seconds > current_time_ - frame_time_(Division(Obj))
    /\ applied_[Len(applied_) - 1].time_seconds > current_time_ - frame_time_(Division(Obj))
    /\ QueueSize(pending_events_) >= 1
    /\ \A e \in BagToSet(pending_events_) :
          e.time_seconds > current_time_ + kTimeEpsilon(Division(Obj))

(***************************************************************************)
(* The lookahead buffer of a track                                         *)
(***************************************************************************)

\* every event a cursor yields from its position on, each with the tick and
\* the cursor the read leaves
RECURSIVE EventsOf(_)
EventsOf(track) ==
    LET Body(r) ==
            IF ~r.ok
            THEN << >>
            ELSE << [event |-> r.event, tick |-> r.track.currentTick, after |-> r.track] >>
                 \o EventsOf(r.track)
    IN Body(midi_read_next_event(track))

\* the event read is a Note-On or a Note-Off
IsNoteRead(read) == read.event.eventType \in {MIDI_EVENT_NOTE_ON, MIDI_EVENT_NOTE_OFF}

\* the queue entries of track i
QueuedOf(queue, i) == { e \in BagToSet(queue) : e.track_index = i }

\* C31: a track that has had n events applied holds, if its stream has a
\* further Note-On/Note-Off, the (n+1)-th of them in its buffer, with its tick,
\* the cursor standing right behind it and one queue entry; whatever else the
\* stream holds before it is skipped.  If the stream has none (it ended by
\* EndOfTrack, at its last byte or within an event), the track has no buffer
\* and no queue entry and its cursor is ended.
C31_BufferHoldsNextNote ==
    (midi_file_ # NULL /\ Len(streaming_tracks_) = Len(midi_file_.tracks))
    => \A i \in 1 .. Len(streaming_tracks_) :
          LET Holds(notes, n, state) ==
                  IF n < Len(notes)
                  THEN /\ state.has_event
                       /\ state.current_event = notes[n + 1].event
                       /\ state.event_tick = notes[n + 1].tick
                       /\ state.track_state = notes[n + 1].after
                       /\ Cardinality(QueuedOf(pending_events_, i)) = 1
                       /\ \A e \in QueuedOf(pending_events_, i) :
                             CopiesIn(e, pending_events_) = 1 /\ e.tick = notes[n + 1].tick
                  ELSE /\ n = Len(notes)
                       /\ ~state.has_event
                       /\ state.current_event = EmptyEvent
                       /\ state.track_state.ended
                       /\ QueuedOf(pending_events_, i) = {}
          IN Holds(SelectSeq(EventsOf(midi_file_.tracks[i]), IsNoteRead),
                   Len(AppliedOf(applied_, i)), streaming_tracks_[i])

\* a track whose stream begins with other events has had its note event
\* buffered and applied and has then ended within an event, holding none,
\* while the other track holds one
C31_Witness ==
    /\ midi_file_ # NULL
    /\ Len(streaming_tracks_) = 2
    /\ \E i \in 1 .. 2 :
          /\ ~IsNoteRead(EventsOf(midi_file_.tracks[i])[1])
          /\ Len(AppliedOf(applied_, i)) = 1
          /\ ~streaming_tracks_[i].has_event
          /\ streaming_tracks_[i].track_state.current < streaming_tracks_[i].track_state.size
          /\ \E j \in 1 .. 2 : j # i /\ streaming_tracks_[j].has_event

(***************************************************************************)
(* Update outside a playback                                               *)
(***************************************************************************)

\* C32: an Update called while the state is neither Playing nor Recording, or
\* while no document is loaded, changes nothing: frame counter, current time,
\* streaming tracks, queue, note table, pressed keys, playback state, recorded
\* frame count and the frames written to the encoder are as before.
C32_UpdateOutsidePlayback ==
    [][ (/\ last_call' = "Update"
         /\ \/ playback_state_ \notin {"Playing", "Recording"}
            \/ midi_file_ = NULL)
        => /\ current_frame_' = current_frame_
           /\ current_time_' = current_time_
           /\ streaming_tracks_' = streaming_tracks_
           /\ pending_events_' = pending_events_
           /\ active_notes_' = active_notes_
           /\ keys_' = keys_
           /\ playback_state_' = playback_state_
           /\ frame_count_' = frame_count_
           /\ pipe_writes_' = pipe_writes_
           /\ is_recording_' = is_recording_
           /\ processed_event_count_' = processed_event_count_ ]_vars

\* Update has been called on a recording that is paused after its first frames
C32_Witness ==
    /\ last_call = "Update"
    /\ playback_state_ = "Paused"
    /\ is_recording_
    /\ frame_count_ > 0
    /\ QueueSize(pending_events_) > 0

(***************************************************************************)
(* The byte spans of the tracks                                            *)
(***************************************************************************)

\* C33: after a successful load every track has all the bytes of its span in
\* the buffer: the bytes it holds are as many as its size.
C33_TrackSpansInsideBuffer ==
    (last_call = "midi_load_from_memory" /\ last_result.result = "MIDI_PARSE_SUCCESS")
    => \A i \in DOMAIN last_result.file.tracks :
          /\ Len(last_result.file.tracks[i].data) = last_result.file.tracks[i].size
          /\ \E at \in 0 .. (Len(last_arg) - last_result.file.tracks[i].size) :
                SubSeq(last_arg, at + 1, at + last_result.file.tracks[i].size)
                    = last_result.file.tracks[i].data

(***************************************************************************)
(* The ticks of a track                                                    *)
(***************************************************************************)

\* C34: the ticks of the events decoded from a track of the document, in the
\* order of decoding, never decrease.
C34_TrackTicksNeverDecrease ==
    midi_file_ # NULL
    => \A i \in DOMAIN midi_file_.tracks :
          LET Ordered(events) ==
                  \A k \in 1 .. (Len(events) - 1) : events[k].tick <= events[k + 1].tick
          IN Ordered(EventsOf(midi_file_.tracks[i]))

\* C35: every frame written to the encoder pipe of a recording session has
\* exactly width * height * 4 bytes, for the width and height the encoder of
\* that session was spawned with, however SetVideoSettings and Update are
\* interleaved during the session
C35_FrameMatchesEncoderSize ==
    (ffmpeg_process_ /\ pipe_writes_ > 0)
    => written_bytes_ = encoder_settings_.width * encoder_settings_.height * 4

\* C36: between public calls, is_recording_ is true exactly when an encoder
\* process handle is open
C36_RecordingIffEncoderOpen == is_recording_ <=> ffmpeg_process_

\* Cleanup() has ended a recording session that had written frames
C36_Witness ==
    /\ last_call = "Cleanup"
    /\ frame_count_ > 0
    /\ ~is_recording_
    /\ ~ffmpeg_process_
    /\ encoders_ = 0

\* C37: an uninterrupted playback (Play from Stopped followed only by Update
\* calls) eventually stops by itself, and when the Update that stops it is
\* called every Note-On/Note-Off event of every track has been applied
\* exactly once: the queue is empty and the processed-event count equals the
\* total event count of the pre-scan
C37_PlaybackRunsToTheEnd ==
    /\ (playback_state_ = "Playing") ~> (playback_state_ = "Stopped")
    /\ [][ (playback_state_ = "Playing" /\ playback_state_' = "Stopped")
           => /\ last_call' = "Update"
              /\ pending_events_ = EmptyBag
              /\ processed_event_count_ = total_event_count_
              /\ \A i \in DOMAIN midi_file_.tracks :
                    LET Same(applied, notes) ==
                            /\ Len(applied) = Len(notes)
                            /\ \A k \in 1 .. Len(notes) :
                                  /\ applied[k].event = notes[k].event
                                  /\ applied[k].tick = notes[k].tick
                    IN Same(AppliedOf(applied_, i),
                            SelectSeq(EventsOf(midi_file_.tracks[i]), IsNoteRead)) ]_vars

\* a playback of a document with notes has run to its end and stopped
C37_Witness ==
    /\ last_call = "Update"
    /\ playback_state_ = "Stopped"
    /\ midi_file_ # NULL
    /\ total_event_count_ > 0
    /\ current_frame_ > 0
    /\ current_frame_ * FrameTime >= total_duration_

\* C38: in an uninterrupted recording (a successful StartVideoOutput followed
\* only by Update calls, every write succeeding) exactly one frame is written
\* per Update whose resulting current time is below the total duration, frame
\* n at virtual time n/60; the session is finalized by the first Update whose
\* frame K has K/60 >= total duration, and the recorded frame count is K - 1
C38_OneFramePerUpdate ==
    /\ [](/\ (is_recording_ /\ write_failures = 0)
             => /\ frame_count_ = current_frame_
                /\ pipe_writes_ = current_frame_
                /\ current_time_ = current_frame_ * FrameTime
                /\ current_frame_ > 0 => current_time_ < total_duration_)
    /\ [][ (is_recording_ /\ write_failures' = 0 /\ last_call' = "Update")
           => IF (current_frame_ + 1) * FrameTime < total_duration_
              THEN /\ is_recording_'
                   /\ frame_count_' = frame_count_ + 1
                   /\ pipe_writes_' = pipe_writes_ + 1
                   /\ current_frame_' = current_frame_ + 1
              ELSE /\ ~is_recording_' /\ ~ffmpeg_process_'
                   /\ current_frame_' = current_frame_ + 1
                   /\ frame_count_' = current_frame_' - 1 ]_vars
    /\ [][ (is_recording_ /\ ~is_recording_') => last_call' = "Update" ]_vars
    /\ is_recording_ ~> ~is_recording_

\* a session has recorded every frame of a document with notes and was
\* finalized by the Update that reached the end
C38_Witness ==
    /\ last_call = "Update"
    /\ write_failures = 0
    /\ ~is_recording_ /\ encoders_ = 0
    /\ total_event_count_ > 0
    /\ frame_count_ > 0
    /\ frame_count_ = current_frame_ - 1
    /\ (current_frame_ - 1) * FrameTime < total_duration_
    /\ current_frame_ * FrameTime >= total_duration_

\* C39: whenever Play() starts a new playback from Stopped, the
\* ActiveNotesTable is all false and no key is pressed when it returns,
\* whatever calls came before (a Seek while Stopped, an auto-stop that
\* finalized a recording)
C39_PlayStartsWithClearTable ==
    [][ (last_call' = "Play" /\ playback_state_ = "Stopped" /\ midi_file_ # NULL)
        => (active_notes_' = {} /\ keys_' = {}) ]_vars

==============================================================================
